---- MODULE Spec2Model ----
(***************************************************************************)
(* GenStim: the local-first synchronisation model.                         *)
(*   - the Local Store and its change bus        (src/services/db.ts)      *)
(*   - the Cloud Snapshot Sync                   (src/services/cloudSync.ts)*)
(*   - the Sync Orchestrator of the Dashboard    (src/unnamed/part_002)    *)
(*   - the Peer Broadcast service                (src/services/p2p.ts)     *)
(* Three specifications share the variables: SpecStore drives the store    *)
(* with arbitrary callers, SpecSync drives the dashboard handlers of one   *)
(* device against the cloud, SpecP2P drives two devices and PeerJS.        *)
(***************************************************************************)
EXTENDS Integers, Sequences, FiniteSets, TLC

VARIABLES
  now,        \* Date.now(), the wall clock
  decks,      \* decks[dev]: the 'decks' object store of a device, keyed by id
  probes,     \* the test listeners currently in `listeners` of device A
  received,   \* received[l]: what probe listener l was called with, in order
  base,       \* base[l]: the number of commits before l was last subscribed
  commitLog,  \* the writes device A's store committed, in order (history)
  lastSave,   \* the last saveDeck on device A and when it ran (history)
  tracing,    \* whether the history variables above are recorded
  cloud,      \* the JSON bins of the cloud endpoint, keyed by id
  sync,       \* device A's running runAutoSync / handleSyncProcess, if any
  ops,        \* the number of handler calls and remote writes so far
  lastOp,     \* the last persisted mutation of a dashboard handler (history)
  prevMerge,  \* the last reconcile, while nothing else has changed (history)
  twice,      \* two reconciles in succession of one unchanged remote (history)
  svc,        \* svc[dev]: the fields peer, conn and myId of the device's P2PService
  peers,      \* the Peer objects created so far; a peer's index is its id
  ends,       \* the DataConnection objects: ends 2k-1 and 2k are one connection
  sent,       \* sent[e]: the messages sent on end e that are still on their way
  inbox,      \* inbox[dev]: the received messages whose store write is pending
  status,     \* status[dev]: the status last notified, and by which handler
  localOps,   \* localOps[dev]: the store mutations made by the device's own UI
  run,        \* the state of the mounted SessionRunner, if any
  sessions,   \* the 'sessions' object store of device A, keyed by date
  dashDecks,  \* the decks state of device A's Dashboard: the list it shows
  editor,     \* the state of the mounted DeckEditor, if any
  jobs        \* the Dashboard's syncing and isRefreshing flags, and the scans
              \* that run side by side (mount effect, Sync All)

storeVars == <<decks, probes, received, base, commitLog, lastSave, tracing>>
syncVars == <<cloud, sync, ops, lastOp, prevMerge, twice>>
linkVars == <<svc, peers, ends, inbox, status, localOps>>
peerVars == <<linkVars, sent>>
sessVars == <<run, sessions, editor, jobs>>
viewVars == <<sessVars, dashDecks>>
vars == <<now, storeVars, syncVars, peerVars, viewVars>>

----------------------------------------------------------------------------
(* Bounds of the model *)

MaxTime == 3
MaxEvents == 3
MaxOps == 2

(* The universe of values *)

Devs == {"A", "B"}
DeckIds == {"d1", "d2"}
Names == {"n1", "n2"}
\* l1 stays registered, as the Peer Broadcast listener whose disposer is never
\* called; l2 comes and goes, as a listener of a UI component
Probes == {"l1", "l2"}
ComingAndGoing == {"l2"}

\* types.ts StimulusCard. A missing originalDescription is "".
Card(id, media) ==
  IF id = "c1"
  THEN [id |-> "c1", label |-> "apple", mediaUri |-> media, mediaType |-> "image",
        burstUris |-> <<>>, originalDescription |-> "a red apple", createdAt |-> 1]
  ELSE [id |-> id, label |-> "run", mediaUri |-> media, mediaType |-> "burst",
        burstUris |-> <<"f1", "f2">>, originalDescription |-> "", createdAt |-> 1]

\* types.ts Deck. A missing cloudSyncId is "", a missing lastSyncedAt is 0.
MkDeck(id, name, cards, updatedAt, cloudSyncId, lastSyncedAt) ==
  [id |-> id, name |-> name, cards |-> cards, updatedAt |-> updatedAt,
   cloudSyncId |-> cloudSyncId, lastSyncedAt |-> lastSyncedAt]

NoDeck == [none |-> TRUE]
NoSave == [none |-> TRUE]
NoOp == [op |-> "none"]
NoMerge == [none |-> TRUE]
NoPair == [none |-> TRUE]
NoFailure == [none |-> TRUE]
NoRun == [none |-> TRUE]
NoEditor == [none |-> TRUE]

\* one runAutoSync that has not been called
IdleJob ==
  [pc |-> "idle", queue |-> <<>>, cloudId |-> "", existing |-> NoDeck,
   remoteDeck |-> NoDeck, newCards |-> <<>>]

\* the callers of runAutoSync: the mount effect, and the Sync All button
JobIds == {"mount", "button"}

\* useState(false) of syncing and of isRefreshing, and no scan running
IdleJobs ==
  [syncing |-> FALSE, isRefreshing |-> FALSE, procs |-> [j \in JobIds |-> IdleJob]]

\* no scan and no reconcile is running
Idle ==
  [pc |-> "idle", from |-> "none", queue |-> <<>>, cloudId |-> "",
   existing |-> NoDeck, seen |-> NoDeck, remoteDeck |-> NoDeck, newCards |-> <<>>,
   calls |-> <<>>, failure |-> NoFailure]

----------------------------------------------------------------------------
(* Local Store: src/services/db.ts *)

\* (mutant) a put that stamps the record with the time of the write
putStamped(store, deck) == (deck.id :> [deck EXCEPT !.updatedAt = now]) @@ store

\* db.put('decks', deck): upsert by the key path 'id'
put(store, deck) == (deck.id :> deck) @@ store

\* (mutant) a delete that clears the object store
deleteClear(store, id) == [i \in {} |-> store[i]]

\* db.delete('decks', id)
delete(store, id) == [i \in DOMAIN store \ {id} |-> store[i]]

\* db.get('decks', id)
getDeck(dev, id) == IF id \in DOMAIN decks[dev] THEN decks[dev][id] ELSE NoDeck

\* (mutant) a store that takes a write flagged fromSync as already applied
storeAfterSaveSkipSync(store, deck, fromSync) ==
  IF fromSync THEN store ELSE put(store, deck)

\* what saveDeck leaves in the object store; fromSync plays no part in it
storeAfterSave(store, deck, fromSync) == put(store, deck)

\* what deleteDeck leaves in the object store
storeAfterDelete(store, id, fromSync) == delete(store, id)

DeckUpdate(deck, fromSync) ==
  [type |-> "DECK_UPDATE", payload |-> [deck |-> deck, fromSync |-> fromSync]]

DeckDelete(id, fromSync) ==
  [type |-> "DECK_DELETE", payload |-> [id |-> id, fromSync |-> fromSync]]

\* whether the write an event announces is in the store a listener can read
Committed(store, event) ==
  IF event.type = "DECK_UPDATE"
  THEN /\ event.payload.deck.id \in DOMAIN store
       /\ store[event.payload.deck.id] = event.payload.deck
  ELSE event.payload.id \notin DOMAIN store

\* a probe listener appends the event and whether it finds the write committed
probeCall(dev, event, store) ==
  received' = [l \in Probes |->
                 IF dev = "A" /\ l \in probes
                 THEN Append(received[l], [event |-> event, committed |-> Committed(store, event)])
                 ELSE received[l]]

\* conn.open of the DataConnection e, e = 0 being null
isOpen(es, e) == e # 0 /\ es[e].st = "open"

\* P2PService.send(msg): conn.send on this.conn if it is there and open
send(dev, msg, w, es) ==
  IF isOpen(es, svc[dev].conn)
  THEN [w EXCEPT ![svc[dev].conn] = Append(@, msg)]
  ELSE w

SyncDeck(deck) == [type |-> "SYNC_DECK", deck |-> deck]
SyncDelete(id) == [type |-> "SYNC_DELETE", id |-> id]
\* (mutant) opening a connection pushes a change instead of the handshake
HandshakeAsSync(timestamp) == [type |-> "SYNC_DELETE", id |-> "d1"]

Handshake(timestamp) == [type |-> "HANDSHAKE", timestamp |-> timestamp]

\* (mutant) the bus listener relays whatever the origin of the change
shouldRelayAll(event, open) == open

\* the test of the bus listener of P2PService: an open connection, and a
\* change that did not come from the peer
shouldRelay(event, open) == open /\ ~event.payload.fromSync

\* the bus listener the constructor of P2PService registers
relay(dev, event, w) ==
  IF shouldRelay(event, isOpen(ends, svc[dev].conn))
  THEN IF event.type = "DECK_UPDATE"
       THEN send(dev, SyncDeck(event.payload.deck), w, ends)
       ELSE send(dev, SyncDelete(event.payload.id), w, ends)
  ELSE w

\* (mutant) the listeners run before the write is awaited
notifyBeforeCommit(dev, event, store) ==
  /\ probeCall(dev, event, decks[dev])
  /\ sent' = relay(dev, event, sent)

\* listeners.forEach(l => l(event)), with the store as the listeners find it
notifyListeners(dev, event, store) ==
  /\ probeCall(dev, event, store)
  /\ sent' = relay(dev, event, sent)

\* the history of device A's commits
logCommit(dev, event) ==
  commitLog' = IF tracing /\ dev = "A" THEN Append(commitLog, event) ELSE commitLog

\* dbService.saveDeck(deck, fromSync)
saveDeck(dev, deck, fromSync) ==
  LET after == storeAfterSave(decks[dev], deck, fromSync) IN
  /\ decks' = [decks EXCEPT ![dev] = after]
  /\ notifyListeners(dev, DeckUpdate(deck, fromSync), after)
  /\ logCommit(dev, DeckUpdate(deck, fromSync))
  /\ lastSave' = IF tracing /\ dev = "A"
                 THEN [id |-> deck.id, deck |-> deck, at |-> now]
                 ELSE lastSave

\* dbService.deleteDeck(id, fromSync)
deleteDeck(dev, id, fromSync) ==
  LET after == storeAfterDelete(decks[dev], id, fromSync) IN
  /\ decks' = [decks EXCEPT ![dev] = after]
  /\ notifyListeners(dev, DeckDelete(id, fromSync), after)
  /\ logCommit(dev, DeckDelete(id, fromSync))
  /\ lastSave' = IF tracing /\ dev = "A" /\ lastSave # NoSave /\ lastSave.id = id
                 THEN NoSave
                 ELSE lastSave

\* dbService.subscribe(listener)
subscribe(l) ==
  /\ l \notin probes
  /\ probes' = probes \cup {l}
  /\ received' = [received EXCEPT ![l] = <<>>]
  /\ base' = [base EXCEPT ![l] = Len(commitLog)]

\* the disposer subscribe returns
unsubscribe(l) ==
  /\ l \in probes
  /\ probes' = probes \ {l}
  /\ received' = [received EXCEPT ![l] = <<>>]
  /\ base' = [base EXCEPT ![l] = 0]

\* P2PService as constructed: no peer, no connection, nothing notified
NoSvc == [peer |-> 0, conn |-> 0, myId |-> 0]
NoStatus == [cur |-> "none", by |-> "none"]

DeckRank(id) == IF id = "d1" THEN 1 ELSE 2

\* the order of the index 'by-updated': by updatedAt, then by primary key
Before(a, b) ==
  \/ a.updatedAt < b.updatedAt
  \/ a.updatedAt = b.updatedAt /\ DeckRank(a.id) < DeckRank(b.id)

\* getAllDecks() on a store as a handler has left it
allDecksOf(store) ==
  LET ids == DOMAIN store
      n == Cardinality(ids)
      order == CHOOSE s \in [1..n -> ids] :
                 \A i, j \in 1..n : i < j => Before(store[s[i]], store[s[j]])
  IN [i \in 1..n |-> store[order[i]]]

\* the order of allDecks.sort((a, b) => b.updatedAt - a.updatedAt): the sort
\* is stable, so decks of one updatedAt keep the order of getAllDecks
Newer(a, b) ==
  \/ a.updatedAt > b.updatedAt
  \/ a.updatedAt = b.updatedAt /\ DeckRank(a.id) < DeckRank(b.id)

\* loadData: setDecks(allDecks.sort(...)) of what getAllDecks returned
loadData(store) ==
  LET all == allDecksOf(store)
      n == Len(all)
      order == CHOOSE s \in [1..n -> 1..n] :
                 \A i, j \in 1..n : i < j => Newer(all[s[i]], all[s[j]])
  IN [i \in 1..n |-> all[order[i]]]

\* setDecks(decks.map(d => d.id === deck.id ? updatedDeck : d))
renamedIn(list, updatedDeck) ==
  [i \in 1..Len(list) |-> IF list[i].id = updatedDeck.id THEN updatedDeck ELSE list[i]]

\* the Dashboard as its mount effect has left it
InitDashboard == dashDecks = loadData(decks["A"])

\* no session is running and none was saved; the editor is not mounted
InitSessions ==
  /\ run = NoRun
  /\ sessions = <<>>
  /\ editor = NoEditor
  /\ jobs = IdleJobs

InitPeers ==
  /\ svc = [dev \in Devs |-> NoSvc]
  /\ peers = <<>>
  /\ ends = <<>>
  /\ sent = <<>>
  /\ inbox = [dev \in Devs |-> <<>>]
  /\ status = [dev \in Devs |-> NoStatus]
  /\ localOps = [dev \in Devs |-> 0]

----------------------------------------------------------------------------
(* SpecStore: the store driven by arbitrary callers *)

\* the decks a caller may hand to saveDeck at this time
SampleDecks ==
  { MkDeck(id, "n1", IF id = "d1" THEN <<Card("c1", "m1")>> ELSE <<>>, ts, "", 0) :
      id \in DeckIds, ts \in {1, now} }

Tick ==
  /\ now < MaxTime
  /\ now' = now + 1

StoreTick ==
  /\ Tick
  /\ UNCHANGED <<viewVars, peerVars, storeVars, syncVars>>

StoreSave ==
  \E deck \in SampleDecks, fromSync \in BOOLEAN :
    /\ Len(commitLog) < MaxEvents
    /\ saveDeck("A", deck, fromSync)
    /\ UNCHANGED <<viewVars, linkVars, now, probes, base, tracing, syncVars>>

StoreDelete ==
  \E id \in DeckIds, fromSync \in BOOLEAN :
    /\ Len(commitLog) < MaxEvents
    /\ deleteDeck("A", id, fromSync)
    /\ UNCHANGED <<viewVars, linkVars, now, probes, base, tracing, syncVars>>

StoreSubscribe ==
  \E l \in ComingAndGoing :
    /\ subscribe(l)
    /\ UNCHANGED <<viewVars, peerVars, now, decks, commitLog, lastSave, tracing, syncVars>>

StoreUnsubscribe ==
  \E l \in ComingAndGoing :
    /\ unsubscribe(l)
    /\ UNCHANGED <<viewVars, peerVars, now, decks, commitLog, lastSave, tracing, syncVars>>

InitStore ==
  /\ now = 2
  /\ decks = [dev \in Devs |-> <<>>]
  /\ probes = {"l1"}
  /\ received = [l \in Probes |-> <<>>]
  /\ base = [l \in Probes |-> 0]
  /\ commitLog = <<>>
  /\ lastSave = NoSave
  /\ tracing = TRUE
  /\ cloud = <<>>
  /\ sync = Idle
  /\ ops = 0
  /\ lastOp = NoOp
  /\ prevMerge = NoMerge
  /\ twice = NoPair
  /\ InitPeers
  /\ InitSessions
  /\ InitDashboard

NextStore ==
  \/ StoreTick
  \/ StoreSave
  \/ StoreDelete
  \/ StoreSubscribe
  \/ StoreUnsubscribe

SpecStore == InitStore /\ [][NextStore]_vars

----------------------------------------------------------------------------
(* Claims about the Local Store, checked under SpecStore *)

EventsOf(l) == [i \in 1..Len(received[l]) |-> received[l][i].event]

\* C8: every registered listener has been called exactly once for each write
\* committed since it subscribed, in commit order, and each call found its
\* write already committed; with one or several listeners registered.
C8_ExactlyOnceInCommitOrder ==
  \A l \in probes :
    /\ EventsOf(l) = SubSeq(commitLog, base[l] + 1, Len(commitLog))
    /\ \A i \in 1..Len(received[l]) : received[l][i].committed

C8_Witness ==
  /\ probes = Probes
  /\ Len(received["l1"]) = MaxEvents
  /\ base["l2"] = 1
  /\ Len(received["l2"]) = MaxEvents - 1
  /\ \E i, j \in 1..Len(commitLog) :
       /\ i < j
       /\ commitLog[i].type = "DECK_UPDATE"
       /\ commitLog[j].type = "DECK_DELETE"

\* C9: in every store state, saveDeck(D, true) and saveDeck(D, false) leave the
\* same stored decks, and so do deleteDeck(id, true) and deleteDeck(id, false);
\* the events of the two runs differ in the fromSync field only.
C9_FromSyncNotPersisted ==
  /\ \A deck \in SampleDecks :
       /\ storeAfterSave(decks["A"], deck, TRUE) = storeAfterSave(decks["A"], deck, FALSE)
       /\ storeAfterSave(decks["A"], deck, TRUE)[deck.id] = deck
       /\ DeckUpdate(deck, TRUE) =
            [DeckUpdate(deck, FALSE) EXCEPT !.payload.fromSync = TRUE]
  /\ \A id \in DeckIds :
       /\ storeAfterDelete(decks["A"], id, TRUE) = storeAfterDelete(decks["A"], id, FALSE)
       /\ DeckDelete(id, TRUE) =
            [DeckDelete(id, FALSE) EXCEPT !.payload.fromSync = TRUE]

C9_Witness ==
  /\ Cardinality(DOMAIN decks["A"]) = 2
  /\ \E i, j \in 1..Len(commitLog) :
       /\ commitLog[i].payload.fromSync
       /\ ~commitLog[j].payload.fromSync

----------------------------------------------------------------------------
(* Cloud Snapshot Sync: src/services/cloudSync.ts *)

CloudIds == {"k1", "k2"}

\* (mutant) a skeleton that blanks a field the cards do not carry
skeletonDeckImageData(deck) == deck

\* skeletonDeck: the deck with every card's mediaUri emptied
skeletonDeck(deck) ==
  [deck EXCEPT !.cards =
     [i \in 1..Len(deck.cards) |-> [deck.cards[i] EXCEPT !.mediaUri = ""]]]

\* (mutant) a skeleton built by emptying the caller's cards in place
callerDeckStripped(deck) == skeletonDeck(deck)

\* the deck the caller passed, as uploadDeck/updateDeck leave it: the skeleton
\* is built of fresh objects ({...deck}, cards.map(c => ({...c})))
callerDeckAfter(deck) == deck

\* the bins after a successful POST of the deck to <base> or <base>/<id>
cloudAfterPost(id, deck) == (id :> skeletonDeck(deck)) @@ cloud

\* downloadDeck(id): the JSON of the bin; NoDeck when the response is not ok
downloadDeck(id) == IF id \in DOMAIN cloud THEN cloud[id] ELSE NoDeck

\* what fetch(BASE_URL/id) can come to when downloadDeck fails: the service
\* answers 404 for an id it does not hold, it answers with a server error, or
\* the request itself fails and fetch rejects
FailedFetches(id) ==
  (IF id \in DOMAIN cloud THEN {} ELSE {"404"}) \cup {"500", "rejected"}

NotFoundError == "Program not found. Please check the code."

\* the error downloadDeck throws: its own for a response that is not ok, and
\* the TypeError of fetch, rethrown by the catch, for a rejected request
downloadError(response) ==
  IF response = "rejected" THEN "TypeError: Failed to fetch" ELSE NotFoundError

\* what the caller makes of the error: handleSyncProcess shows one alert,
\* runAutoSync only logs "Sync check failed for"
failureOf(response, caller) ==
  [response |-> response, error |-> downloadError(response),
   alert |-> IF caller = "scan" THEN ""
             ELSE "Error: Could not retrieve program data. The link might be expired or incorrect."]

----------------------------------------------------------------------------
(* Dashboard and App handlers of device A: src/unnamed/part_002 *)

\* the card lists a deck gets in the editor or on another device
LocalCardLists ==
  { <<Card("c1", "m1")>>, <<Card("c1", "m1"), Card("c2", "m2")>> }

\* generateImageFromDescription: null and a throw both leave '', and the
\* image is not a function of the prompt
GenOutcomes == {"", "g1", "g2"}

\* what a call of generateImageFromDescription can do: return one of the
\* above, or throw (new GoogleGenAI and buildPrompt run outside its try)
GenCalls == GenOutcomes \cup {"threw"}

\* a persisted mutation: the handler, the time, the deck it read and the deck it
\* saved, the deck it posted to the cloud and under which id; for a reconcile
\* the snapshot it merged and, when a scan called it, the snapshot the scan
\* had compared
Op(op, before, after, given, cloudId, remote) ==
  [op |-> op, at |-> now, before |-> before, after |-> after, sent |-> given,
   cloudId |-> cloudId, remote |-> remote, from |-> sync.from, seen |-> sync.seen,
   calls |-> sync.calls]

\* one more handler call or remote write
Budget ==
  /\ ops < MaxOps
  /\ ops' = ops + 1

\* the 'Cloud Communication' overlay does not cover the dashboard
UiFree == sync.pc \in {"idle", "scan"}

\* a mutation other than a reconcile ends a succession of reconciles
EndsSuccession ==
  /\ prevMerge' = NoMerge
  /\ twice' = NoPair

\* (mutant) db.getAll('decks'): the decks in the order of their primary key
getAllDecksByKey(dev) ==
  LET ids == DOMAIN decks[dev]
      n == Cardinality(ids)
      order == CHOOSE s \in [1..n -> ids] :
                 \A i, j \in 1..n : i < j => DeckRank(s[i]) < DeckRank(s[j])
  IN [i \in 1..n |-> decks[dev][order[i]]]

\* dbService.getAllDecks(): db.getAllFromIndex('decks', 'by-updated')
getAllDecks(dev) ==
  LET ids == DOMAIN decks[dev]
      n == Cardinality(ids)
      order == CHOOSE s \in [1..n -> ids] :
                 \A i, j \in 1..n : i < j => Before(decks[dev][s[i]], decks[dev][s[j]])
  IN [i \in 1..n |-> decks[dev][order[i]]]

\* handleCreateDeck; uuidv4() is an id the store does not hold. onEditDeck opens
\* the editor in place of the dashboard; the dashboard is mounted again on the
\* way back, and its mount effect loads the decks
handleCreateDeck ==
  \E id \in DeckIds \ DOMAIN decks["A"] :
    LET newDeck == MkDeck(id, "n1", <<>>, now, "", 0) IN
    /\ UiFree
    /\ Budget
    /\ saveDeck("A", newDeck, FALSE)
    /\ lastOp' = Op("create", NoDeck, newDeck, NoDeck, "", NoDeck)
    /\ EndsSuccession
    /\ dashDecks' = loadData(decks'["A"])
    /\ UNCHANGED <<sessVars, linkVars, now, probes, base, tracing, cloud, sync>>

\* what the editor may hand to onSave, before updatedAt is stamped
EditorEdits(deck) ==
  {[deck EXCEPT !.name = n] : n \in Names \ {deck.name}}
    \cup {[deck EXCEPT !.cards = cs] : cs \in LocalCardLists \ {deck.cards}}

\* DeckEditor's Save button, onSave({...deck, name, cards, updatedAt: Date.now()}),
\* and App.handleSaveDeck; the dashboard loads the decks when it is mounted
\* again on the way back
handleSaveDeck ==
  \E id \in DOMAIN decks["A"] :
    \E edited \in EditorEdits(decks["A"][id]), cloudOk \in BOOLEAN :
      LET updatedDeck == [edited EXCEPT !.updatedAt = now]
          linked == updatedDeck.cloudSyncId # ""
          pushed == linked /\ cloudOk /\ updatedDeck.cloudSyncId \in DOMAIN cloud
          saved == IF pushed
                   THEN [callerDeckAfter(updatedDeck) EXCEPT !.lastSyncedAt = now]
                   ELSE updatedDeck
      IN /\ Budget
         /\ linked \/ cloudOk
         /\ cloud' = IF pushed THEN cloudAfterPost(updatedDeck.cloudSyncId, updatedDeck)
                     ELSE cloud
         /\ saveDeck("A", saved, FALSE)
         /\ lastOp' = Op("editorSave", decks["A"][id], saved,
                         IF pushed THEN updatedDeck ELSE NoDeck,
                         updatedDeck.cloudSyncId, NoDeck)
         /\ EndsSuccession
         /\ dashDecks' = loadData(decks'["A"])
         /\ UNCHANGED <<sessVars, linkVars, now, probes, base, tracing, sync>>

\* submitRename; when updateDeck throws the catch skips setDecks
submitRename ==
  \E id \in DOMAIN decks["A"] :
    \E editingName \in Names, cloudOk \in BOOLEAN :
      LET deck == decks["A"][id]
          updatedDeck == [deck EXCEPT !.name = editingName, !.updatedAt = now]
          linked == deck.cloudSyncId # ""
          pushed == linked /\ cloudOk /\ deck.cloudSyncId \in DOMAIN cloud
      IN /\ UiFree
         /\ editingName # deck.name
         /\ Budget
         /\ linked \/ cloudOk
         /\ saveDeck("A", updatedDeck, FALSE)
         /\ cloud' = IF pushed THEN cloudAfterPost(deck.cloudSyncId, updatedDeck) ELSE cloud
         /\ lastOp' = Op("rename", deck, updatedDeck,
                         IF pushed THEN updatedDeck ELSE NoDeck, deck.cloudSyncId, NoDeck)
         /\ EndsSuccession
         /\ dashDecks' = IF linked /\ ~pushed THEN dashDecks
                         ELSE renamedIn(dashDecks, updatedDeck)
         /\ UNCHANGED <<sessVars, linkVars, now, probes, base, tracing, sync>>

\* handleShareClick of a deck that has no cloudSyncId: publish it
handleShareClick ==
  \E id \in DOMAIN decks["A"] :
    \E newId \in CloudIds \ DOMAIN cloud :
      LET deck == decks["A"][id]
          updatedDeck == [callerDeckAfter(deck) EXCEPT !.cloudSyncId = newId,
                                                       !.lastSyncedAt = now]
      IN /\ UiFree
         /\ deck.cloudSyncId = ""
         /\ Budget
         /\ \/ /\ cloud' = cloudAfterPost(newId, deck)
               /\ saveDeck("A", updatedDeck, FALSE)
               /\ lastOp' = Op("share", deck, updatedDeck, deck, newId, NoDeck)
               /\ EndsSuccession
               /\ dashDecks' = loadData(decks'["A"])
               /\ UNCHANGED <<sessVars, linkVars, now, probes, base, tracing, sync>>
            \/ \* uploadDeck throws: the alert, and nothing is saved
               /\ UNCHANGED <<viewVars, peerVars, now, storeVars, cloud, sync, lastOp, 
                              prevMerge, twice>>

\* (mutant) a push that also stamps updatedAt
pushedDeckTouched(deck) ==
  [callerDeckAfter(deck) EXCEPT !.lastSyncedAt = now, !.updatedAt = now]

\* handleManualPush: const updatedDeck = { ...deck, lastSyncedAt: Date.now() }
pushedDeck(deck) == [callerDeckAfter(deck) EXCEPT !.lastSyncedAt = now]

\* (mutant) the reconcile never finds a local card to reuse
localMediaNone(existing, cardId) == ""

\* handleManualPush
handleManualPush ==
  \E id \in DOMAIN decks["A"] :
    LET deck == decks["A"][id]
        updatedDeck == pushedDeck(deck)
    IN /\ UiFree
       /\ deck.cloudSyncId # ""
       /\ Budget
       /\ \/ /\ deck.cloudSyncId \in DOMAIN cloud
             /\ cloud' = cloudAfterPost(deck.cloudSyncId, deck)
             /\ saveDeck("A", updatedDeck, FALSE)
             /\ lastOp' = Op("push", deck, updatedDeck, deck, deck.cloudSyncId, NoDeck)
             /\ EndsSuccession
             /\ dashDecks' = loadData(decks'["A"])
             /\ UNCHANGED <<sessVars, linkVars, now, probes, base, tracing, sync>>
          \/ \* updateDeck throws: the alert, and nothing is saved
             /\ UNCHANGED <<viewVars, peerVars, now, storeVars, cloud, sync, lastOp, 
                            prevMerge, twice>>

\* handleDeleteDeck, confirmed
handleDeleteDeck ==
  \E id \in DOMAIN decks["A"] :
    /\ UiFree
    /\ Budget
    /\ deleteDeck("A", id, FALSE)
    /\ lastOp' = NoOp
    /\ EndsSuccession
    /\ dashDecks' = loadData(decks'["A"])
    /\ UNCHANGED <<sessVars, linkVars, now, probes, base, tracing, cloud, sync>>

\* another device running this code saves or pushes its version of a deck:
\* updateDeck(k, deck) with its own media and its own clock's updatedAt
RemoteWrite ==
  \E k \in DOMAIN cloud :
    \E theirs \in EditorEdits(cloud[k]) :
      /\ Budget
      /\ cloud' = cloudAfterPost(k, [theirs EXCEPT !.updatedAt = now])
      /\ lastOp' = IF lastOp # NoOp /\ lastOp.cloudId = k THEN NoOp ELSE lastOp
      /\ prevMerge' = IF prevMerge # NoMerge /\ prevMerge.cloudId = k
                      THEN NoMerge ELSE prevMerge
      /\ twice' = NoPair
      /\ UNCHANGED <<viewVars, peerVars, now, storeVars, sync>>

----------------------------------------------------------------------------
(* Sync Orchestrator: runAutoSync and handleSyncProcess, one step per await *)

\* (mutant) a scan that also applies a remote of the same age
shouldApplyNotOlder(remote, d) == remote.updatedAt >= d.updatedAt

\* runAutoSync: if (remote.updatedAt > d.updatedAt)
shouldApply(remote, d) == remote.updatedAt > d.updatedAt

\* (mutant) the scan ends with the deck it has just dealt with
scanStop == Idle

\* the scan moves to the next cloud-linked deck, or ends
scanNext ==
  IF Len(sync.queue) <= 1 THEN Idle
  ELSE [Idle EXCEPT !.pc = "scan", !.from = "scan", !.queue = Tail(sync.queue)]

\* handleSyncProcess returns to its caller, its finally having run
\* setSyncing(false) and setSyncProgress(null)
afterReconcile == IF sync.from = "scan" THEN scanNext ELSE Idle

\* (mutant) setSyncing(false) as the last statement of the try, not a finally
syncingNoFinally(s) == s.pc \in {"download", "cards"} \/ s.failure # NoFailure

\* the 'Cloud Communication' overlay: setSyncing(true) is the first statement
\* of handleSyncProcess and setSyncing(false) its finally
syncing(s) == s.pc \in {"download", "cards"}

\* the TypeError of remoteDeck.cards.length, caught by handleSyncProcess
cardListFailure ==
  [response |-> "nocards",
   error |-> "TypeError: Cannot read properties of undefined (reading 'length')",
   alert |-> failureOf("rejected", "reconcile").alert]

\* runAutoSync up to its loop: getAllDecks and the filter on cloudSyncId
runAutoSyncStart ==
  LET cloudDecks == SelectSeq(getAllDecks("A"), LAMBDA d : d.cloudSyncId # "") IN
  /\ sync.pc = "idle"
  /\ Budget
  /\ sync' = IF cloudDecks = <<>> THEN Idle
             ELSE [Idle EXCEPT !.pc = "scan", !.from = "scan", !.queue = cloudDecks]
  /\ UNCHANGED <<viewVars, peerVars, now, storeVars, cloud, lastOp, prevMerge, twice>>

\* one iteration of the loop up to the call of handleSyncProcess
runAutoSyncCheck ==
  /\ sync.pc = "scan"
  /\ LET d == Head(sync.queue)
         remote == downloadDeck(d.cloudSyncId)
     IN \/ /\ remote # NoDeck
           /\ sync' = IF shouldApply(remote, d)
                      THEN [sync EXCEPT !.pc = "download", !.cloudId = d.cloudSyncId,
                                        !.existing = d, !.seen = remote]
                      ELSE scanNext
        \/ \* downloadDeck throws: "Sync check failed for"
           \E response \in FailedFetches(d.cloudSyncId) :
             sync' = [scanNext EXCEPT !.failure = failureOf(response, "scan")]
  /\ UNCHANGED <<viewVars, peerVars, now, storeVars, cloud, ops, lastOp, prevMerge, twice>>

\* the mount effect with ?cloudId=k in the URL
openSharedLink ==
  \E k \in CloudIds :
    LET allDecks == getAllDecks("A")
        found == {i \in 1..Len(allDecks) : allDecks[i].cloudSyncId = k}
        existing == IF found = {} THEN NoDeck
                    ELSE allDecks[CHOOSE i \in found : \A j \in found : i <= j]
    IN /\ sync.pc = "idle"
       /\ Budget
       /\ sync' = [Idle EXCEPT !.pc = "download", !.from = "link", !.cloudId = k,
                               !.existing = existing]
       /\ UNCHANGED <<viewVars, peerVars, now, storeVars, cloud, lastOp, prevMerge, twice>>

\* ShareModal onPull: handleSyncProcess(shareDeck.cloudSyncId, shareDeck)
pullFromCloud ==
  \E id \in DOMAIN decks["A"] :
    LET deck == decks["A"][id] IN
    /\ sync.pc = "idle"
    /\ deck.cloudSyncId # ""
    /\ Budget
    /\ sync' = [Idle EXCEPT !.pc = "download", !.from = "pull",
                            !.cloudId = deck.cloudSyncId, !.existing = deck]
    /\ UNCHANGED <<viewVars, peerVars, now, storeVars, cloud, lastOp, prevMerge, twice>>

\* CloudJoinModal onJoin: handleSyncProcess(id), no existing deck is passed
joinByCode ==
  \E k \in CloudIds :
    /\ sync.pc = "idle"
    /\ Budget
    /\ sync' = [Idle EXCEPT !.pc = "download", !.from = "join", !.cloudId = k]
    /\ UNCHANGED <<viewVars, peerVars, now, storeVars, cloud, lastOp, prevMerge, twice>>

\* handleSyncProcess: downloadDeck(cloudId)
handleSyncProcessDownload ==
  /\ sync.pc = "download"
  /\ LET remoteDeck == downloadDeck(sync.cloudId) IN
     \/ /\ remoteDeck # NoDeck
        /\ "cards" \in DOMAIN remoteDeck
        /\ sync' = [sync EXCEPT !.pc = "cards", !.remoteDeck = remoteDeck,
                                !.newCards = <<>>, !.calls = <<>>]
     \/ \* remoteDeck.cards.length throws: the alert, and nothing is saved
        /\ remoteDeck # NoDeck
        /\ "cards" \notin DOMAIN remoteDeck
        /\ sync' = [afterReconcile EXCEPT !.failure = cardListFailure]
     \/ \* downloadDeck throws: the alert, and nothing is saved
        \E response \in FailedFetches(sync.cloudId) :
          sync' = [afterReconcile EXCEPT !.failure = failureOf(response, "reconcile")]
  /\ UNCHANGED <<viewVars, peerVars, now, storeVars, cloud, ops, lastOp, prevMerge, twice>>

\* localCardMap.get(card.id) || '': a Map built of [id, mediaUri] pairs keeps
\* the last pair of an id
localMedia(existing, cardId) ==
  IF existing = NoDeck THEN ""
  ELSE LET at == {i \in 1..Len(existing.cards) : existing.cards[i].id = cardId} IN
       IF at = {} THEN ""
       ELSE existing.cards[CHOOSE i \in at : \A j \in at : j <= i].mediaUri

\* newCards.push({...card, mediaUri: imageData, createdAt: card.createdAt || Date.now()})
mergeCard(card, imageData) ==
  [card EXCEPT !.mediaUri = imageData,
               !.createdAt = IF card.createdAt # 0 THEN card.createdAt ELSE now]

\* (mutant) the prompt is always the label
promptLabel(card) == card.label

\* const prompt = card.originalDescription || card.label
prompt(card) ==
  IF card.originalDescription # "" THEN card.originalDescription ELSE card.label

\* (mutant) only a null result leaves the card without media
generatedMediaThrown(outcome) == outcome

\* imageData after the try/catch around the call: generated || '' when the
\* call returns, and the '' it had when the call throws
generatedMedia(outcome) == IF outcome = "threw" THEN "" ELSE outcome

\* one iteration of the loop over remoteDeck.cards
handleSyncProcessCard ==
  /\ sync.pc = "cards"
  /\ Len(sync.newCards) < Len(sync.remoteDeck.cards)
  /\ LET card == sync.remoteDeck.cards[Len(sync.newCards) + 1]
         imageData == localMedia(sync.existing, card.id)
     IN IF imageData # ""
        THEN sync' = [sync EXCEPT !.newCards = Append(@, mergeCard(card, imageData))]
        ELSE \E outcome \in GenCalls :
               sync' = [sync EXCEPT
                          !.newCards = Append(@, mergeCard(card, generatedMedia(outcome))),
                          !.calls = Append(@, [card |-> card.id,
                                               prompt |-> prompt(card),
                                               outcome |-> outcome])]
  /\ UNCHANGED <<viewVars, peerVars, now, storeVars, cloud, ops, lastOp, prevMerge, twice>>

\* (mutant) a merge that stamps updatedAt with the merge time
mergedDeckStamped(remoteDeck, existing, cloudId, newCards) ==
  [remoteDeck EXCEPT !.id = IF existing # NoDeck THEN existing.id ELSE remoteDeck.id,
                     !.cloudSyncId = cloudId,
                     !.lastSyncedAt = now,
                     !.updatedAt = now,
                     !.cards = newCards]

\* (mutant) a merge that keeps the cards only the local deck has
mergedDeckKeepLocal(remoteDeck, existing, cloudId, newCards) ==
  [remoteDeck EXCEPT !.id = IF existing # NoDeck THEN existing.id ELSE remoteDeck.id,
                     !.cloudSyncId = cloudId,
                     !.lastSyncedAt = now,
                     !.cards = newCards \o
                       (IF existing = NoDeck THEN <<>>
                        ELSE SelectSeq(existing.cards,
                               LAMBDA c : \A i \in 1..Len(newCards) : newCards[i].id # c.id))]

\* mergedDeck; every remote snapshot carries an id, so uuidv4() is not reached
mergedDeck(remoteDeck, existing, cloudId, newCards) ==
  [remoteDeck EXCEPT !.id = IF existing # NoDeck THEN existing.id ELSE remoteDeck.id,
                     !.cloudSyncId = cloudId,
                     !.lastSyncedAt = now,
                     !.cards = newCards]

\* (mutant) the reconcile saves as a change that came from the peer
reconcileFromSyncTrue(deck) == TRUE

\* dbService.saveDeck(mergedDeck): fromSync is left to its default
reconcileFromSync(deck) == FALSE

\* handleSyncProcess after the loop: saveDeck(mergedDeck), loadData(), and
\* the return
handleSyncProcessSave ==
  /\ sync.pc = "cards"
  /\ Len(sync.newCards) = Len(sync.remoteDeck.cards)
  /\ LET merged == mergedDeck(sync.remoteDeck, sync.existing, sync.cloudId, sync.newCards) IN
     /\ saveDeck("A", merged, reconcileFromSync(merged))
     /\ lastOp' = Op("reconcile", sync.existing, merged, NoDeck, sync.cloudId,
                     sync.remoteDeck)
     /\ twice' = IF /\ prevMerge # NoMerge
                    /\ prevMerge.cloudId = sync.cloudId
                    /\ prevMerge.remote = sync.remoteDeck
                 THEN [first |-> prevMerge.merged, second |-> merged,
                       existing |-> sync.existing]
                 ELSE NoPair
     /\ prevMerge' = [cloudId |-> sync.cloudId, remote |-> sync.remoteDeck,
                      merged |-> merged]
  /\ dashDecks' = loadData(decks'["A"])
  /\ sync' = afterReconcile
  /\ UNCHANGED <<sessVars, linkVars, now, probes, base, tracing, cloud, ops>>

SyncTick ==
  /\ Tick
  /\ UNCHANGED <<viewVars, peerVars, storeVars, syncVars>>

\* device A holds a deck d1 it published at time 1 and an unpublished deck d2;
\* the bin of d1 is as A left it, or another device has pushed an edit since
InitSync ==
  LET d1 == MkDeck("d1", "n1", <<Card("c1", "m1")>>, 1, "k1", 1)
      d2 == MkDeck("d2", "n1", <<Card("c2", "m2")>>, 1, "", 0)
      theirs == MkDeck("d1", "n2", <<Card("c1", "m1"), Card("c2", "m2")>>, 2, "k1", 1)
  IN /\ now = 2
     /\ decks = [dev \in Devs |-> IF dev = "A" THEN ("d1" :> d1) @@ ("d2" :> d2) ELSE <<>>]
     /\ probes = {"l1"}
     /\ received = [l \in Probes |-> <<>>]
     /\ base = [l \in Probes |-> 0]
     /\ commitLog = <<>>
     /\ lastSave = NoSave
     /\ tracing = FALSE
     /\ cloud \in {("k1" :> skeletonDeck(d1)), ("k1" :> skeletonDeck(theirs))}
     /\ sync = Idle
     /\ ops = 0
     /\ lastOp = NoOp
        /\ prevMerge = NoMerge
     /\ twice = NoPair
  /\ InitPeers
  /\ InitSessions
  /\ InitDashboard

NextSync ==
  \/ SyncTick
  \/ handleCreateDeck
  \/ handleSaveDeck
  \/ submitRename
  \/ handleShareClick
  \/ handleManualPush
  \/ handleDeleteDeck
  \/ RemoteWrite
  \/ runAutoSyncStart
  \/ runAutoSyncCheck
  \/ openSharedLink
  \/ pullFromCloud
  \/ joinByCode
  \/ handleSyncProcessDownload
  \/ handleSyncProcessCard
  \/ handleSyncProcessSave

SpecSync == InitSync /\ [][NextSync]_vars

----------------------------------------------------------------------------
(* Claims about the Sync Orchestrator and the cloud, checked under SpecSync *)

\* C2: a scan starts a reconcile, and so saves, only for a deck whose remote
\* updatedAt it found greater than the local one; a scan step that finds the
\* remote updatedAt equal or less starts no reconcile and leaves the store
\* untouched: no save, no change event.
C2_ScanAppliesOnlyNewer ==
  /\ [](/\ (sync.from = "scan" /\ sync.pc \in {"download", "cards"})
             => sync.seen.updatedAt > sync.existing.updatedAt
        /\ (lastOp # NoOp /\ lastOp.op = "reconcile" /\ lastOp.from = "scan")
             => lastOp.seen.updatedAt > lastOp.before.updatedAt)
  /\ [][(sync.pc = "scan" /\ sync' # sync)
          => LET d == Head(sync.queue)
                 remote == downloadDeck(d.cloudSyncId)
             IN (remote # NoDeck /\ remote.updatedAt <= d.updatedAt)
                  => /\ sync'.pc # "download"
                     /\ decks' = decks
                     /\ received' = received]_vars

C2_Witness ==
  /\ lastOp # NoOp
  /\ lastOp.op = "reconcile"
  /\ lastOp.from = "scan"
  /\ lastOp.seen.updatedAt > lastOp.before.updatedAt
  /\ Len(received["l1"]) = 1
  /\ sync = Idle

C5_UploadStripsMedia ==
  /\ \A k \in DOMAIN cloud :
       \A i \in 1..Len(downloadDeck(k).cards) : downloadDeck(k).cards[i].mediaUri = ""
  /\ (lastOp # NoOp /\ lastOp.sent # NoDeck) =>
       LET D == lastOp.sent
           got == downloadDeck(lastOp.cloudId)
       IN /\ got # NoDeck
          /\ [got EXCEPT !.cards = D.cards] = D
          /\ Len(got.cards) = Len(D.cards)
          /\ \A i \in 1..Len(D.cards) : got.cards[i] = [D.cards[i] EXCEPT !.mediaUri = ""]
          /\ lastOp.after.cards = D.cards
          /\ getDeck("A", D.id).cards = D.cards

C5_Witness ==
  /\ lastOp # NoOp
  /\ lastOp.op = "share"
  /\ lastOp.sent.cards # <<>>
  /\ lastOp.sent.cards[1].mediaUri # ""
  /\ downloadDeck(lastOp.cloudId).cards[1].mediaUri = ""
  /\ getDeck("A", lastOp.sent.id).cards[1].mediaUri # ""

----------------------------------------------------------------------------
(* Peer Broadcast: src/services/p2p.ts, and the PeerJS objects it drives.   *)
(* A Peer is pending until the signalling server registers it, then open;   *)
(* a DataConnection end is "none" until its side knows of it, then "new",   *)
(* "open" and "closed".  PeerJS runs the handlers the service registered,   *)
(* on whichever object the event belongs to, current or superseded.         *)

MaxPeers == 2
MaxLocal == 1
MaxCards == 2
MaxRuns == 2
MaxClicks == 5

PeerIds == 1..Len(peers)
EndIds == 1..Len(ends)
Owner(e) == peers[ends[e].peer].owner
Other(e) == IF e % 2 = 1 THEN e + 1 ELSE e - 1

\* one more host or join call, one more edit of a deck
PeerBudget == Len(peers) < MaxPeers
LocalBudget == localOps["A"] + localOps["B"] < MaxLocal

\* notifyStatus(status, id), and the handler that called it
notifyStatus(st, s, by) == [cur |-> s, by |-> by]

\* the 'close' handler of handleConnection run for n connections in a row
closeHeard(st, n) ==
  IF n = 0 THEN st ELSE notifyStatus(st, "DISCONNECTED", "conn.close")

\* cleanup(): conn.close() on this.conn and peer.destroy() on this.peer, which
\* closes the peer's connections; a connection that was open emits 'close'
\* from within close(), so its handler runs before cleanup returns
cleanup(dev) ==
  LET c == svc[dev].conn
      p == svc[dev].peer
      mine == (IF c # 0 THEN {c} ELSE {}) \cup
              (IF p # 0 THEN {e \in EndIds : ends[e].peer = p} ELSE {})
      closing == {e \in mine : ends[e].st \in {"new", "open"}}
      heard == {e \in closing : ends[e].st = "open"}
  IN [ends |-> [e \in EndIds |->
                  IF e \in closing THEN [ends[e] EXCEPT !.st = "closed"] ELSE ends[e]],
      sent |-> [e \in EndIds |-> IF Other(e) \in closing THEN <<>> ELSE sent[e]],
      peers |-> IF p # 0 THEN [peers EXCEPT ![p].state = "destroyed"] ELSE peers,
      status |-> closeHeard(status[dev], Cardinality(heard)),
      svc |-> [svc[dev] EXCEPT !.peer = 0, !.conn = 0]]

\* new Peer(), not yet registered
NewPeer(dev, role, hostId) ==
  [owner |-> dev, role |-> role, state |-> "pending", hostId |-> hostId]

\* host(): cleanup, CONNECTING, new Peer()
host(dev) ==
  LET c == cleanup(dev) IN
  /\ ends' = c.ends
  /\ peers' = Append(c.peers, NewPeer(dev, "host", 0))
  /\ svc' = [svc EXCEPT ![dev] = c.svc]
  /\ status' = [status EXCEPT ![dev] = notifyStatus(c.status, "CONNECTING", "host")]
  /\ sent' = c.sent
  /\ UNCHANGED <<viewVars, now, storeVars, syncVars, inbox, localOps>>

\* the codes a user of dev can have been given: a registered host of the other
\* device, still there or not
KnownHosts(dev) ==
  {p \in PeerIds : /\ peers[p].role = "host"
                   /\ peers[p].owner # dev
                   /\ peers[p].state # "pending"}

\* join(hostId): cleanup, CONNECTING, new Peer()
join(dev, hostId) ==
  LET c == cleanup(dev) IN
  /\ ends' = c.ends
  /\ peers' = Append(c.peers, NewPeer(dev, "join", hostId))
  /\ svc' = [svc EXCEPT ![dev] = c.svc]
  /\ status' = [status EXCEPT ![dev] = notifyStatus(c.status, "CONNECTING", "join")]
  /\ sent' = c.sent
  /\ UNCHANGED <<viewVars, now, storeVars, syncVars, inbox, localOps>>

\* disconnect(): cleanup, DISCONNECTED
disconnect(dev) ==
  LET c == cleanup(dev) IN
  /\ ends' = c.ends
  /\ peers' = c.peers
  /\ svc' = [svc EXCEPT ![dev] = c.svc]
  /\ status' = [status EXCEPT ![dev] = notifyStatus(c.status, "DISCONNECTED", "disconnect")]
  /\ sent' = c.sent
  /\ UNCHANGED <<viewVars, now, storeVars, syncVars, inbox, localOps>>

\* (mutant) the host reports CONNECTED as soon as it is registered
hostRegisteredConnected(st) == notifyStatus(st, "CONNECTED", "host.open")

\* host(), peer.on('open'): "Ready to wait for connection"
hostRegistered(st) == notifyStatus(st, "DISCONNECTED", "host.open")

\* host(), peer.on('open', id)
hostPeerOpen(p) ==
  LET dev == peers[p].owner IN
  /\ peers[p].role = "host"
  /\ peers[p].state = "pending"
  /\ peers' = [peers EXCEPT ![p].state = "open"]
  /\ svc' = [svc EXCEPT ![dev].myId = p, ![dev].peer = p]
  /\ status' = [status EXCEPT ![dev] = hostRegistered(@)]
  /\ UNCHANGED <<viewVars, now, storeVars, syncVars, ends, sent, inbox, localOps>>

\* handleConnection(conn): this.conn = conn, and the four handlers below
handleConnection(s, e) == [s EXCEPT !.conn = e]

\* join(), peer.on('open', id): peer.connect(hostId) and handleConnection
joinPeerOpen(p) ==
  LET dev == peers[p].owner IN
  /\ peers[p].role = "join"
  /\ peers[p].state = "pending"
  /\ peers' = [peers EXCEPT ![p].state = "open"]
  /\ ends' = ends \o << [peer |-> p, st |-> "new"],
                        [peer |-> peers[p].hostId, st |-> "none"] >>
  /\ sent' = sent \o << <<>>, <<>> >>
  /\ svc' = [svc EXCEPT ![dev] =
               handleConnection([@ EXCEPT !.myId = p, !.peer = p], Len(ends) + 1)]
  /\ UNCHANGED <<viewVars, now, storeVars, syncVars, inbox, status, localOps>>

\* host(), peer.on('connection', conn)
peerConnection(e) ==
  /\ ends[e].st = "none"
  /\ peers[ends[e].peer].state = "open"
  /\ ends[Other(e)].st = "new"
  /\ ends' = [ends EXCEPT ![e].st = "new"]
  /\ svc' = [svc EXCEPT ![Owner(e)] = handleConnection(@, e)]
  /\ UNCHANGED <<viewVars, now, storeVars, syncVars, peers, sent, inbox, status, localOps>>

\* whether the peer has asked for a connection that has not opened
Unanswered(p) == \E e \in EndIds : ends[e].peer = p /\ ends[e].st = "new"

\* host() and join(), peer.on('error'): join reports it, host only rejects;
\* a peer fails to register, or a registered one fails to reach the host
peerError(p) ==
  LET dev == peers[p].owner IN
  /\ \/ peers[p].state = "pending"
     \/ peers[p].state = "open" /\ peers[p].role = "join" /\ Unanswered(p)
  /\ peers' = [peers EXCEPT ![p].state = IF @ = "pending" THEN "failed" ELSE @]
  /\ status' = IF peers[p].role = "join"
               THEN [status EXCEPT ![dev] = notifyStatus(@, "DISCONNECTED", "peer.error")]
               ELSE status
  /\ UNCHANGED <<viewVars, now, storeVars, syncVars, svc, ends, sent, inbox, localOps>>

\* conn.on('open'): CONNECTED, and the handshake over this.conn
connOpen(e) ==
  LET dev == Owner(e)
      es == [ends EXCEPT ![e].st = "open"]
  IN
  /\ ends[e].st = "new"
  /\ ends[Other(e)].st \in {"new", "open"}
  /\ ends' = es
  /\ status' = [status EXCEPT ![dev] = notifyStatus(@, "CONNECTED", "conn.open")]
  /\ sent' = send(dev, Handshake(now), sent, es)
  /\ UNCHANGED <<viewVars, now, storeVars, syncVars, svc, peers, inbox, localOps>>

\* conn.on('data'): the next message on its way to this end is handed to
\* handleMessage, which ignores a handshake and awaits the store for the rest
connData(e) ==
  LET dev == Owner(e)
      msg == Head(sent[Other(e)])
  IN
  /\ ends[e].st = "open"
  /\ sent[Other(e)] # <<>>
  /\ sent' = [sent EXCEPT ![Other(e)] = Tail(@)]
  /\ inbox' = IF msg.type = "HANDSHAKE"
              THEN inbox
              ELSE [inbox EXCEPT ![dev] = Append(@, msg)]
  /\ UNCHANGED <<viewVars, now, storeVars, syncVars, svc, peers, ends, status, localOps>>

\* (mutant) a received change is saved as if it were a local one
receivedFromSyncFalse(msg) == FALSE

\* the fromSync argument handleMessage passes to the store
receivedFromSync(msg) == TRUE

\* handleMessage(msg), once the store has committed: the write and its event
handleMessage(dev) ==
  LET msg == Head(inbox[dev]) IN
  /\ inbox[dev] # <<>>
  /\ inbox' = [inbox EXCEPT ![dev] = Tail(@)]
  /\ IF msg.type = "SYNC_DECK"
     THEN saveDeck(dev, msg.deck, receivedFromSync(msg))
     ELSE deleteDeck(dev, msg.id, receivedFromSync(msg))
  /\ UNCHANGED <<viewVars, now, probes, base, tracing, syncVars, svc, peers, ends, status, localOps>>

\* conn.on('close'), heard once the other side has closed the connection:
\* DISCONNECTED, this.conn = null; what was on its way to the closed end is lost
connClose(e) ==
  LET dev == Owner(e) IN
  /\ ends[e].st = "open"
  /\ ends[Other(e)].st = "closed"
  /\ ends' = [ends EXCEPT ![e].st = "closed"]
  /\ status' = [status EXCEPT ![dev] = notifyStatus(@, "DISCONNECTED", "conn.close")]
  /\ svc' = [svc EXCEPT ![dev].conn = 0]
  /\ sent' = [sent EXCEPT ![Other(e)] = <<>>]
  /\ UNCHANGED <<viewVars, now, storeVars, syncVars, peers, inbox, localOps>>

\* conn.on('error'): DISCONNECTED
connError(e) ==
  LET dev == Owner(e) IN
  /\ ends[e].st \in {"new", "open"}
  /\ status' = [status EXCEPT ![dev] = notifyStatus(@, "DISCONNECTED", "conn.error")]
  /\ UNCHANGED <<viewVars, now, storeVars, syncVars, svc, peers, ends, sent, inbox, localOps>>

\* the device that hosts and the device that joins it
Hosts == {"A"}
Joiners == {"B"}

\* the deck the UI of a device saves while peers are around
EditedBy(dev) == MkDeck("d1", IF dev = "A" THEN "n1" ELSE "n2", <<>>, now, "", 0)

\* App.handleSaveDeck on a device: dbService.saveDeck(deck)
uiSaveDeck(dev) ==
  /\ LocalBudget
  /\ saveDeck(dev, EditedBy(dev), FALSE)
  /\ localOps' = [localOps EXCEPT ![dev] = @ + 1]
  /\ dashDecks' = IF dev = "A" THEN loadData(decks'["A"]) ELSE dashDecks
  /\ UNCHANGED <<sessVars, now, probes, base, tracing, syncVars, svc, peers, ends, inbox, status>>

\* handleDeleteDeck on a device: dbService.deleteDeck(id)
uiDeleteDeck(dev) ==
  /\ LocalBudget
  /\ deleteDeck(dev, "d1", FALSE)
  /\ localOps' = [localOps EXCEPT ![dev] = @ + 1]
  /\ dashDecks' = IF dev = "A" THEN loadData(decks'["A"]) ELSE dashDecks
  /\ UNCHANGED <<sessVars, now, probes, base, tracing, syncVars, svc, peers, ends, inbox, status>>

----------------------------------------------------------------------------
(* SpecP2P: two devices, their P2PService and their stores *)

P2PHost == PeerBudget /\ \E dev \in Hosts : host(dev)
P2PJoin ==
  PeerBudget /\ \E dev \in Joiners : \E hostId \in KnownHosts(dev) : join(dev, hostId)
P2PDisconnect == \E dev \in Devs : disconnect(dev)
P2PHostPeerOpen == \E p \in PeerIds : hostPeerOpen(p)
P2PJoinPeerOpen == \E p \in PeerIds : joinPeerOpen(p)
P2PPeerConnection == \E e \in EndIds : peerConnection(e)
P2PPeerError == \E p \in PeerIds : peerError(p)
P2PConnOpen == \E e \in EndIds : connOpen(e)
P2PConnData == \E e \in EndIds : connData(e)
P2PHandleMessage == \E dev \in Devs : handleMessage(dev)
P2PConnClose == \E e \in EndIds : connClose(e)
P2PConnError == \E e \in EndIds : connError(e)
P2PSaveDeck == \E dev \in Devs : uiSaveDeck(dev)
P2PDeleteDeck == \E dev \in Devs : uiDeleteDeck(dev)

InitP2P ==
  /\ now = 2
  /\ decks = [dev \in Devs |->
                IF dev = "A" THEN ("d1" :> MkDeck("d1", "n1", <<>>, 1, "", 0)) ELSE <<>>]
  /\ probes = {"l1"}
  /\ received = [l \in Probes |-> <<>>]
  /\ base = [l \in Probes |-> 0]
  /\ commitLog = <<>>
  /\ lastSave = NoSave
  /\ tracing = FALSE
  /\ cloud = <<>>
  /\ sync = Idle
  /\ ops = 0
  /\ lastOp = NoOp
  /\ prevMerge = NoMerge
  /\ twice = NoPair
  /\ InitPeers
  /\ InitSessions
  /\ InitDashboard

NextP2P ==
  \/ P2PHost
  \/ P2PJoin
  \/ P2PDisconnect
  \/ P2PHostPeerOpen
  \/ P2PJoinPeerOpen
  \/ P2PPeerConnection
  \/ P2PPeerError
  \/ P2PConnOpen
  \/ P2PConnData
  \/ P2PHandleMessage
  \/ P2PConnClose
  \/ P2PConnError
  \/ P2PSaveDeck
  \/ P2PDeleteDeck

SpecP2P == InitP2P /\ [][NextP2P]_vars

----------------------------------------------------------------------------
(* Claims about Peer Broadcast, checked under SpecP2P *)

\* the SYNC_DECK and SYNC_DELETE messages of a device that are on their way
SyncOnWire(dev) ==
  UNION { { <<e, i>> : i \in {j \in 1..Len(sent[e]) :
                                sent[e][j].type \in {"SYNC_DECK", "SYNC_DELETE"}} } :
          e \in {f \in EndIds : Owner(f) = dev} }

\* C1: loop suppression.  The store write that applies a received SYNC_DECK
\* or SYNC_DELETE sends nothing on any connection of the receiving device, so
\* a device never has more SYNC messages on the wire than its own UI has made
\* mutations: one local mutation produces at most one message.
C1_LoopSuppression ==
  /\ [](\A dev \in Devs :
          Cardinality(SyncOnWire(dev)) <= localOps[dev])
  /\ [][\A dev \in Devs :
          Len(inbox'[dev]) < Len(inbox[dev]) =>
            \A e \in EndIds : Owner(e) = dev => sent'[e] = sent[e]]_vars

\* device B has applied the deck device A's UI saved, over an open connection
C1_Witness ==
  /\ localOps = [dev \in Devs |-> IF dev = "A" THEN 1 ELSE 0]
  /\ getDeck("B", "d1") = EditedBy("A")
  /\ inbox["B"] = <<>>
  /\ isOpen(ends, svc["B"].conn)
  /\ isOpen(ends, svc["A"].conn)

----------------------------------------------------------------------------
(* SpecHosted: device A has called host() and is registered; device B joins *)
(* it, once or again, while A stays in that call of host()                  *)

\* one more join call after the host's registration
JoinBudget == Len(peers) <= MaxPeers

HostedJoin ==
  JoinBudget /\ \E dev \in Joiners : \E hostId \in KnownHosts(dev) : join(dev, hostId)

HostedDisconnect == \E dev \in Joiners : disconnect(dev)

\* the state host() and its peer's 'open' handler leave on device A
InitHosted ==
  /\ now = 2
  /\ decks = [dev \in Devs |->
                IF dev = "A" THEN ("d1" :> MkDeck("d1", "n1", <<>>, 1, "", 0)) ELSE <<>>]
  /\ probes = {"l1"}
  /\ received = [l \in Probes |-> <<>>]
  /\ base = [l \in Probes |-> 0]
  /\ commitLog = <<>>
  /\ lastSave = NoSave
  /\ tracing = FALSE
  /\ cloud = <<>>
  /\ sync = Idle
  /\ ops = 0
  /\ lastOp = NoOp
  /\ prevMerge = NoMerge
  /\ twice = NoPair
  /\ svc = [dev \in Devs |->
              IF dev = "A" THEN [peer |-> 1, conn |-> 0, myId |-> 1] ELSE NoSvc]
  /\ peers = << [NewPeer("A", "host", 0) EXCEPT !.state = "open"] >>
  /\ ends = <<>>
  /\ sent = <<>>
  /\ inbox = [dev \in Devs |-> <<>>]
  /\ status = [dev \in Devs |->
                 IF dev = "A" THEN hostRegistered(notifyStatus(NoStatus, "CONNECTING", "host"))
                 ELSE NoStatus]
  /\ localOps = [dev \in Devs |-> 0]
  /\ InitSessions
  /\ InitDashboard

NextHosted ==
  \/ HostedJoin
  \/ HostedDisconnect
  \/ P2PJoinPeerOpen
  \/ P2PPeerConnection
  \/ P2PPeerError
  \/ P2PConnOpen
  \/ P2PConnData
  \/ P2PHandleMessage
  \/ P2PConnClose
  \/ P2PConnError
  \/ P2PSaveDeck
  \/ P2PDeleteDeck

SpecHosted == InitHosted /\ [][NextHosted]_vars

\* the state SpecHosted starts in, as SpecP2P reaches it
HostedReached ==
  /\ svc = [dev \in Devs |->
              IF dev = "A" THEN [peer |-> 1, conn |-> 0, myId |-> 1] ELSE NoSvc]
  /\ peers = << [NewPeer("A", "host", 0) EXCEPT !.state = "open"] >>
  /\ status = [dev \in Devs |->
                 IF dev = "A" THEN hostRegistered(notifyStatus(NoStatus, "CONNECTING", "host"))
                 ELSE NoStatus]
  /\ localOps = [dev \in Devs |-> 0]

----------------------------------------------------------------------------
(* Further claims about Peer Broadcast *)

\* C11 as the spec states it: when a peer fails to register, in the host flow
\* as in the join flow, DISCONNECTED is notified; and a DISCONNECTED notified
\* by an error or a close is left only by a new host or join call.
C11_AsStated ==
  [][\A dev \in Devs :
       /\ (\E p \in PeerIds : /\ peers[p].owner = dev
                              /\ peers[p].state = "pending"
                              /\ peers'[p].state = "failed")
            => status'[dev].cur = "DISCONNECTED"
       /\ ( /\ status[dev].cur = "DISCONNECTED"
            /\ status[dev].by \in {"peer.error", "conn.error", "conn.close"}
            /\ status'[dev].cur # "DISCONNECTED" )
            => /\ Len(peers') = Len(peers) + 1
               /\ peers'[Len(peers')].owner = dev]_vars

\* the inbound connections the peer of end e has been handed besides e
AcceptedBefore(e) ==
  {f \in EndIds \ {e} : ends[f].peer = ends[e].peer /\ ends[f].st # "none"}

\* C12 as the spec states it: an inbound connection that reaches a host whose
\* peer has accepted one already in this call of host() does not become the
\* service's connection.
C12_AsStated ==
  [][\A e \in EndIds :
       ( /\ ends[e].st = "none"
         /\ ends'[e].st = "new"
         /\ AcceptedBefore(e) # {} )
         => svc'[Owner(e)].conn = svc[Owner(e)].conn]_vars

\* the change event a received message is committed with
EventOf(msg) ==
  IF msg.type = "SYNC_DECK" THEN DeckUpdate(msg.deck, TRUE) ELSE DeckDelete(msg.id, TRUE)

\* C13: when handleMessage commits a received SYNC_DECK, the receiver's store
\* holds exactly the deck of the message under its id; when it commits a
\* SYNC_DELETE the store no longer holds the id; no other record changes, and
\* the listeners are called with that change flagged fromSync = true, after
\* the commit.
C13_ReceivedApplied ==
  [][\A dev \in Devs :
       Len(inbox'[dev]) < Len(inbox[dev]) =>
         LET msg == Head(inbox[dev])
             id == IF msg.type = "SYNC_DECK" THEN msg.deck.id ELSE msg.id
         IN /\ msg.type = "SYNC_DECK" =>
                 /\ id \in DOMAIN decks'[dev]
                 /\ decks'[dev][id] = msg.deck
            /\ msg.type = "SYNC_DELETE" => id \notin DOMAIN decks'[dev]
            /\ \A other \in (DOMAIN decks[dev] \cup DOMAIN decks'[dev]) \ {id} :
                 /\ other \in DOMAIN decks[dev] \cap DOMAIN decks'[dev]
                 /\ decks'[dev][other] = decks[dev][other]
            /\ dev = "A" =>
                 received'["l1"] =
                   Append(received["l1"], [event |-> EventOf(msg), committed |-> TRUE])]_vars

\* device A has applied the deck device B's UI saved, and its listener was told
C13_Witness ==
  /\ getDeck("A", "d1") = EditedBy("B")
  /\ received["l1"] = << [event |-> DeckUpdate(EditedBy("B"), TRUE), committed |-> TRUE] >>
  /\ inbox["A"] = <<>>

\* the connections of a device that are open at both ends
OpenConns(dev) ==
  {e \in EndIds : /\ Owner(e) = dev
                  /\ ends[e].st = "open"
                  /\ ends[Other(e)].st = "open"}

\* the message the bus listener makes of a change of the local UI
RelayedFor(dev) ==
  IF "d1" \in DOMAIN decks'[dev] THEN SyncDeck(decks'[dev]["d1"]) ELSE SyncDelete("d1")

\* C14: whenever a device commits a change of its own (fromSync = false) while
\* one of its connections is open, exactly one message of the matching kind,
\* carrying the deck or the id of the change, is appended to what the device
\* has sent on an open connection, behind the messages of earlier changes.
C14_AsStated ==
  [][\A dev \in Devs :
       ( /\ localOps'[dev] = localOps[dev] + 1
         /\ OpenConns(dev) # {} )
         => \E e \in OpenConns(dev) :
              /\ sent'[e] = Append(sent[e], RelayedFor(dev))
              /\ \A f \in EndIds \ {e} : sent'[f] = sent[f]]_vars

----------------------------------------------------------------------------
(* Further claims about the Sync Orchestrator, checked under SpecSync *)

\* the ids of a card sequence, in order
CardIds(cards) == [i \in 1..Len(cards) |-> cards[i].id]

HeldMedia(existing, cardId) ==
  IF existing = NoDeck THEN {}
  ELSE {existing.cards[i].mediaUri : i \in {j \in 1..Len(existing.cards) :
                                              /\ existing.cards[j].id = cardId
                                              /\ existing.cards[j].mediaUri # ""}}

\* C16: in every iteration of the reconcile loop, a remote card whose id the
\* existing local deck holds with non-empty media gets that media and no
\* generation call is made; for any other card exactly one call is made, with
\* the card's originalDescription as the prompt, or its label when the
\* description is absent.
C16_ReuseOrGenerate ==
  [][( /\ sync.pc = "cards"
       /\ sync'.pc = "cards"
       /\ Len(sync'.newCards) = Len(sync.newCards) + 1 ) =>
       LET card == sync.remoteDeck.cards[Len(sync'.newCards)]
           made == sync'.newCards[Len(sync'.newCards)]
           held == HeldMedia(sync.existing, card.id)
       IN IF held # {}
          THEN /\ sync'.calls = sync.calls
               /\ made.mediaUri \in held
          ELSE \E outcome \in GenCalls :
                 sync'.calls =
                   Append(sync.calls,
                          [card |-> card.id,
                           prompt |-> IF card.originalDescription # ""
                                      THEN card.originalDescription ELSE card.label,
                           outcome |-> outcome])]_vars

\* a reconcile reused the media of c1, and called the generator for one card
\* with a description and for one card without
C16_Witness ==
  /\ lastOp # NoOp
  /\ lastOp.op = "reconcile"
  /\ \/ /\ lastOp.before # NoDeck
        /\ Len(lastOp.calls) = 1
        /\ lastOp.calls[1].card = "c2"
        /\ lastOp.calls[1].prompt = "run"
        /\ lastOp.after.cards[1].mediaUri = "m1"
     \/ /\ lastOp.before = NoDeck
        /\ Len(lastOp.calls) = 2
        /\ lastOp.calls[1].prompt = "a red apple"
        /\ lastOp.calls[2].prompt = "run"

\* the calls of a reconcile made for a card
CallsFor(calls, cardId) == {j \in 1..Len(calls) : calls[j].card = cardId}

\* a generation call that threw or returned nothing
Failed(call) == call.outcome \in {"", "threw"}

\* C17: a generation call that fails does not end the loop; and the deck a
\* reconcile persisted holds every remote card, with empty media exactly for
\* the cards whose generation call failed, the generated image for the cards
\* whose call succeeded and the local media for the cards no call was made for.
C17_FailuresIsolated ==
  /\ []( (lastOp # NoOp /\ lastOp.op = "reconcile") =>
           LET m == lastOp.after
               r == lastOp.remote
           IN /\ getDeck("A", m.id) = m
              /\ CardIds(m.cards) = CardIds(r.cards)
              /\ \A i \in 1..Len(m.cards) :
                   LET cs == CallsFor(lastOp.calls, m.cards[i].id) IN
                   /\ Cardinality(cs) <= 1
                   /\ (m.cards[i].mediaUri = "") <=>
                        (\E j \in cs : Failed(lastOp.calls[j]))
                   /\ \A j \in cs : ~Failed(lastOp.calls[j]) =>
                        m.cards[i].mediaUri = lastOp.calls[j].outcome
                   /\ cs = {} => m.cards[i].mediaUri \in HeldMedia(lastOp.before, m.cards[i].id) )
  /\ [][( /\ sync.pc = "cards"
          /\ Len(sync'.calls) = Len(sync.calls) + 1
          /\ Failed(sync'.calls[Len(sync'.calls)]) )
          => /\ sync'.pc = "cards"
             /\ sync'.remoteDeck = sync.remoteDeck
             /\ Len(sync'.newCards) = Len(sync.newCards) + 1
             /\ \A i \in 1..Len(sync.newCards) : sync'.newCards[i] = sync.newCards[i]]_vars

\* a reconcile was persisted although the call for its first card threw and
\* the call for its second card returned an image
C17_Witness ==
  /\ lastOp # NoOp
  /\ lastOp.op = "reconcile"
  /\ Len(lastOp.calls) = 2
  /\ lastOp.calls[1].outcome = "threw"
  /\ lastOp.calls[2].outcome = "g1"
  /\ Len(lastOp.after.cards) = 2
  /\ lastOp.after.cards[1].mediaUri = ""
  /\ lastOp.after.cards[2].mediaUri = "g1"
  /\ getDeck("A", lastOp.after.id) = lastOp.after

----------------------------------------------------------------------------
(* SpecRelay: device A reconciles with the cloud while it is connected to B *)

\* B has joined A and the connection is open at both ends, the handshakes read
Connected ==
  /\ svc = [dev \in Devs |-> IF dev = "A" THEN [peer |-> 1, conn |-> 2, myId |-> 1]
                             ELSE [peer |-> 2, conn |-> 1, myId |-> 2]]
  /\ peers = << [NewPeer("A", "host", 0) EXCEPT !.state = "open"],
                [NewPeer("B", "join", 1) EXCEPT !.state = "open"] >>
  /\ ends = << [peer |-> 2, st |-> "open"], [peer |-> 1, st |-> "open"] >>
  /\ sent = << <<>>, <<>> >>
  /\ inbox = [dev \in Devs |-> <<>>]
  /\ status = [dev \in Devs |-> notifyStatus(NoStatus, "CONNECTED", "conn.open")]
  /\ localOps = [dev \in Devs |-> 0]

\* device A holds the deck d1 it published; another device has pushed an edit
\* of it since; B holds nothing
InitRelay ==
  LET d1 == MkDeck("d1", "n1", <<Card("c1", "m1")>>, 1, "k1", 1)
      theirs == MkDeck("d1", "n2", <<Card("c1", "m1"), Card("c2", "m2")>>, 2, "k1", 1)
  IN /\ now = 2
     /\ decks = [dev \in Devs |-> IF dev = "A" THEN ("d1" :> d1) ELSE <<>>]
     /\ probes = {"l1"}
     /\ received = [l \in Probes |-> <<>>]
     /\ base = [l \in Probes |-> 0]
     /\ commitLog = <<>>
     /\ lastSave = NoSave
     /\ tracing = FALSE
     /\ cloud = ("k1" :> skeletonDeck(theirs))
     /\ sync = Idle
     /\ ops = 0
     /\ lastOp = NoOp
     /\ prevMerge = NoMerge
     /\ twice = NoPair
     /\ Connected
     /\ InitSessions
     /\ InitDashboard

NextRelay ==
  \/ pullFromCloud
  \/ joinByCode
  \/ handleSyncProcessDownload
  \/ handleSyncProcessCard
  \/ handleSyncProcessSave
  \/ P2PConnData
  \/ P2PHandleMessage
  \/ P2PDisconnect
  \/ P2PConnClose

SpecRelay == InitRelay /\ [][NextRelay]_vars

\* C18: the save of a reconcile is an event with fromSync = false: when device
\* A persists a merged deck while its connection is open, exactly one
\* SYNC_DECK carrying the merged deck is appended to what A has sent and
\* nothing else is sent; when the connection is not open nothing is sent; and
\* the write by which a device applies a received message sends nothing.
C18_ReconcileRelayedOnce ==
  /\ [][( /\ sync.pc = "cards"
          /\ sync'.pc # "cards" ) =>
          LET merged == lastOp'.after
              conn == svc["A"].conn
          IN /\ lastOp'.op = "reconcile"
             /\ decks'["A"][merged.id] = merged
             /\ received'["l1"] =
                  Append(received["l1"],
                         [event |-> DeckUpdate(merged, FALSE), committed |-> TRUE])
             /\ IF isOpen(ends, conn)
                THEN /\ sent'[conn] = Append(sent[conn], SyncDeck(merged))
                     /\ \A f \in EndIds \ {conn} : sent'[f] = sent[f]
                ELSE sent' = sent]_vars
  /\ [][\A dev \in Devs : Len(inbox'[dev]) < Len(inbox[dev]) => sent' = sent]_vars

\* B holds the deck A merged, and nothing is on its way in either direction
C18_Witness ==
  /\ lastOp # NoOp
  /\ lastOp.op = "reconcile"
  /\ getDeck("B", "d1") = lastOp.after
  /\ getDeck("A", "d1") = lastOp.after
  /\ isOpen(ends, svc["A"].conn)
  /\ isOpen(ends, svc["B"].conn)
  /\ \A e \in EndIds : sent[e] = <<>>
  /\ \A dev \in Devs : inbox[dev] = <<>>

----------------------------------------------------------------------------
(* The errors of downloadDeck, checked under SpecSync *)

\* C19 as the spec states it: a download of an id the service does not hold
\* fails with the "not found" error, and a download that fails in transport
\* (a server error, or a request that got no response) fails with another
\* error.
C19_AsStated ==
  sync.failure # NoFailure =>
    /\ sync.failure.response = "404" => sync.failure.error = NotFoundError
    /\ sync.failure.response \in {"500", "rejected"} => sync.failure.error # NotFoundError

----------------------------------------------------------------------------
(* Session runner: SessionRunner of src/unnamed/part_001, on device A *)

\* queue[currentIndex] beyond the queue
NoCard == [none |-> TRUE]

\* what an <img> or <video> gets as src when the expression is undefined
Undefined == "undefined"

\* the cards of the decks a session is run on: an image, a burst with two
\* frames, a burst whose burstUris is empty and a burst without burstUris
SessionCards ==
  { Card("c1", "m1"),
    Card("c2", "m2"),
    [Card("c3", "m3") EXCEPT !.burstUris = <<>>],
    [f \in DOMAIN Card("c4", "m4") \ {"burstUris"} |-> Card("c4", "m4")[f]] }

\* the card lists of those decks: no card twice, the empty list included
SessionCardLists ==
  {cs \in UNION {[1..n -> SessionCards] : n \in 0..MaxCards} :
     \A i, j \in 1..Len(cs) : i # j => cs[i] # cs[j]}

SessionDecks == {MkDeck("d1", "n1", cs, 1, "", 0) : cs \in SessionCardLists}

\* [...deck.cards].sort(() => Math.random() - 0.5): some order of the cards
Shuffles(cards) ==
  {q \in [1..Len(cards) -> {cards[i] : i \in 1..Len(cards)}] :
     \A i, j \in 1..Len(cards) : i # j => q[i] # q[j]}

\* const currentCard = queue[currentIndex]
currentCard(r) ==
  IF r.currentIndex < Len(r.queue) THEN r.queue[r.currentIndex + 1] ELSE NoCard

\* the test of the burst effect: a burst card with at least one frame
hasFrames(card) ==
  /\ card # NoCard
  /\ card.mediaType = "burst"
  /\ "burstUris" \in DOMAIN card
  /\ Len(card.burstUris) > 0

\* activeUri: an array is truthy in JavaScript, the empty one too, and an
\* index beyond it yields undefined
activeUri(card, burstFrame) ==
  IF card = NoCard THEN Undefined
  ELSE IF card.mediaType = "burst" /\ "burstUris" \in DOMAIN card
       THEN IF burstFrame < Len(card.burstUris)
            THEN card.burstUris[burstFrame + 1] ELSE Undefined
       ELSE card.mediaUri

\* the useState initialisers of SessionRunner; the effect runs after the mount
mountSession ==
  \E deck \in SessionDecks : \E queue \in Shuffles(deck.cards) :
    /\ run = NoRun
    /\ run' = [deck |-> deck, queue |-> queue, currentIndex |-> 0,
               correctCount |-> 0, incorrectCount |-> 0, results |-> <<>>,
               showLabel |-> FALSE, isComplete |-> FALSE, burstFrame |-> 0,
               interval |-> 0, effectDue |-> TRUE, runs |-> 0]
    /\ UNCHANGED <<now, storeVars, syncVars, peerVars, sessions, dashDecks, editor, jobs>>

\* the burst effect, run after a render in which currentCard changed: the
\* interval of the card before is cleared, and a new one is set for a burst
\* with frames, or the frame is reset. interval is the number of frames its
\* callback cycles through, 0 when there is none
burstEffect ==
  /\ run # NoRun
  /\ run.effectDue
  /\ run' = IF hasFrames(currentCard(run))
            THEN [run EXCEPT !.interval = Len(currentCard(run).burstUris),
                             !.effectDue = FALSE]
            ELSE [run EXCEPT !.interval = 0, !.burstFrame = 0, !.effectDue = FALSE]
  /\ UNCHANGED <<now, storeVars, syncVars, peerVars, sessions, dashDecks, editor, jobs>>

\* the interval fires: setBurstFrame(f => (f + 1) % currentCard.burstUris.length)
burstTick ==
  /\ run # NoRun
  /\ run.interval > 0
  /\ run' = [run EXCEPT !.burstFrame = (@ + 1) % run.interval]
  /\ UNCHANGED <<now, storeVars, syncVars, peerVars, sessions, dashDecks, editor, jobs>>

\* the eye button: setShowLabel(!showLabel)
toggleLabel ==
  /\ run # NoRun
  /\ ~run.isComplete
  /\ run' = [run EXCEPT !.showLabel = ~@]
  /\ UNCHANGED <<now, storeVars, syncVars, peerVars, sessions, dashDecks, editor, jobs>>

\* the SessionResult handleResponse saves with the last response
sessionResult(r, correct) ==
  [deckId |-> r.deck.id, date |-> now, totalCards |-> Len(r.deck.cards),
   correctCount |-> IF correct THEN r.correctCount + 1 ELSE r.correctCount,
   incorrectCount |-> IF correct THEN r.incorrectCount ELSE r.incorrectCount + 1,
   durationSeconds |-> 0]

\* db.put('sessions', session): the store's key path is 'date'
putSession(store, session) == (session.date :> session) @@ store

\* handleResponse(correct)
handleResponse ==
  \E correct \in BOOLEAN :
    LET counted == [run EXCEPT
                      !.results = Append(@, [card |-> currentCard(run), correct |-> correct]),
                      !.correctCount = IF correct THEN @ + 1 ELSE @,
                      !.incorrectCount = IF correct THEN @ ELSE @ + 1]
    IN /\ run # NoRun
       /\ ~run.isComplete
       /\ IF run.currentIndex < Len(run.queue) - 1
          THEN /\ run' = [counted EXCEPT !.currentIndex = @ + 1, !.showLabel = FALSE,
                                         !.burstFrame = 0, !.effectDue = TRUE]
               /\ sessions' = sessions
          ELSE /\ run' = [counted EXCEPT !.isComplete = TRUE, !.runs = @ + 1]
               /\ sessions' = putSession(sessions, sessionResult(run, correct))
       /\ UNCHANGED <<now, storeVars, syncVars, peerVars, dashDecks, editor, jobs>>

\* the Play Again button of the completion screen
playAgain ==
  /\ run # NoRun
  /\ run.isComplete
  /\ run.runs < MaxRuns
  /\ \E queue \in Shuffles(run.deck.cards) :
       LET again == [run EXCEPT !.queue = queue, !.currentIndex = 0, !.correctCount = 0,
                                !.incorrectCount = 0, !.isComplete = FALSE]
       IN run' = [again EXCEPT !.effectDue = @ \/ currentCard(again) # currentCard(run)]
  /\ UNCHANGED <<now, storeVars, syncVars, peerVars, sessions, dashDecks, editor, jobs>>

\* onExit: the runner is unmounted, and the cleanup of the effect clears the interval
exitSession ==
  /\ run # NoRun
  /\ run' = NoRun
  /\ UNCHANGED <<now, storeVars, syncVars, peerVars, sessions, dashDecks, editor, jobs>>

SessionTick ==
  /\ Tick
  /\ UNCHANGED <<storeVars, syncVars, peerVars, viewVars>>

\* device A with an empty store, no peer and no session
InitSession ==
  /\ now = 1
  /\ decks = [dev \in Devs |-> <<>>]
  /\ probes = {}
  /\ received = [l \in Probes |-> <<>>]
  /\ base = [l \in Probes |-> 0]
  /\ commitLog = <<>>
  /\ lastSave = NoSave
  /\ tracing = FALSE
  /\ cloud = <<>>
  /\ sync = Idle
  /\ ops = 0
  /\ lastOp = NoOp
  /\ prevMerge = NoMerge
  /\ twice = NoPair
  /\ InitPeers
  /\ InitSessions
  /\ InitDashboard

NextSession ==
  \/ mountSession
  \/ burstEffect
  \/ burstTick
  \/ toggleLabel
  \/ handleResponse
  \/ playAgain
  \/ exitSession
  \/ SessionTick

SpecSession == InitSession /\ [][NextSession]_vars

\* C20 as the spec states it: while a session shows a burst card whose
\* burstUris is an empty sequence, the media displayed is the card's mediaUri.
C20_AsStated ==
  (run # NoRun /\ ~run.isComplete) =>
    LET card == currentCard(run) IN
    ( /\ card # NoCard
      /\ card.mediaType = "burst"
      /\ "burstUris" \in DOMAIN card
      /\ card.burstUris = <<>> )
      => activeUri(card, run.burstFrame) = card.mediaUri

----------------------------------------------------------------------------
(* Further claims about the cloud, checked under SpecSync *)

\* the media payloads a deck carries: the non-empty mediaUri of its cards and
\* the frames of their burstUris
MediaPayloads(deck) ==
  UNION { {deck.cards[i].mediaUri} \cup
          {deck.cards[i].burstUris[j] : j \in 1..Len(deck.cards[i].burstUris)} :
          i \in 1..Len(deck.cards) } \ {""}

\* C21 as the spec states it: what uploadDeck(D) or updateDeck(C, D) has
\* transmitted carries no media payload of any card, neither in mediaUri nor
\* as a frame of burstUris, and carries each card's label, originalDescription
\* and mediaType as D has them.
C21_AsStated ==
  (lastOp # NoOp /\ lastOp.sent # NoDeck) =>
    LET D == lastOp.sent
        got == downloadDeck(lastOp.cloudId)
    IN /\ got # NoDeck
       /\ Len(got.cards) = Len(D.cards)
       /\ MediaPayloads(got) = {}
       /\ \A i \in 1..Len(D.cards) :
            /\ got.cards[i].label = D.cards[i].label
            /\ got.cards[i].originalDescription = D.cards[i].originalDescription
            /\ got.cards[i].mediaType = D.cards[i].mediaType

----------------------------------------------------------------------------
(* The deck list of the Dashboard, checked under SpecHosted *)

\* C22 as the spec states it: the step that persists a deck mutation of a
\* cloud pull (the save of a reconcile) or of a peer receipt (the write of a
\* received message) on device A leaves the Dashboard showing the stored
\* decks, as loadData lists them.
C22_AsStated ==
  [][( \/ sync.pc = "cards" /\ sync'.pc # "cards"
       \/ Len(inbox'["A"]) < Len(inbox["A"]) )
       => dashDecks' = loadData(decks'["A"])]_vars

----------------------------------------------------------------------------
(* Further claims about the Local Store, checked under SpecStore *)

\* the writes of the log that concern a deck id
WritesTo(id) ==
  {i \in 1..Len(commitLog) :
     IF commitLog[i].type = "DECK_UPDATE" THEN commitLog[i].payload.deck.id = id
     ELSE commitLog[i].payload.id = id}

\* the last of them
LastWrite(id) == CHOOSE i \in WritesTo(id) : \A j \in WritesTo(id) : j <= i

\* C23: after any sequence of saveDeck and deleteDeck calls, getAllDecks
\* returns one deck for every id whose last write was a save, that deck being
\* the one last saved, no deck for any other id, and the decks in ascending
\* order of updatedAt.
C23_GetAllDecks ==
  LET all == getAllDecks("A") IN
  /\ \A id \in DeckIds :
       LET at == {i \in 1..Len(all) : all[i].id = id} IN
       IF WritesTo(id) # {} /\ commitLog[LastWrite(id)].type = "DECK_UPDATE"
       THEN /\ Cardinality(at) = 1
            /\ \A i \in at : all[i] = commitLog[LastWrite(id)].payload.deck
       ELSE at = {}
  /\ \A i, j \in 1..Len(all) : i < j => all[i].updatedAt <= all[j].updatedAt

\* a deck was saved twice and another one once; the deck that comes first by
\* its key was updated later and is returned last
C23_Witness ==
  /\ Len(commitLog) = 3
  /\ Cardinality(WritesTo("d1")) = 2
  /\ Len(getAllDecks("A")) = 2
  /\ getAllDecks("A")[1].id = "d2"
  /\ getAllDecks("A")[2].id = "d1"
  /\ getAllDecks("A")[1].updatedAt < getAllDecks("A")[2].updatedAt

----------------------------------------------------------------------------
(* The session results, checked under SpecSession *)

\* dbService.getAllSessions(): db.getAll('sessions') sorted by b.date - a.date
getAllSessions(store) ==
  LET dates == DOMAIN store
      n == Cardinality(dates)
      order == CHOOSE s \in [1..n -> dates] : \A i, j \in 1..n : i < j => s[i] > s[j]
  IN [i \in 1..n |-> store[order[i]]]

\* the results a listing holds
Listed(list) == {list[i] : i \in 1..Len(list)}

\* C24 as the spec states it: a result that getAllSessions returns is returned,
\* unchanged, by getAllSessions ever after, whatever is saved later, and the
\* results come in descending order of date.
C24_AsStated ==
  [][/\ Listed(getAllSessions(sessions)) \subseteq Listed(getAllSessions(sessions'))
     /\ \A i, j \in 1..Len(getAllSessions(sessions')) :
          i < j => getAllSessions(sessions')[i].date > getAllSessions(sessions')[j].date]_vars

----------------------------------------------------------------------------
(* SpecStoreWrites: the store's writes, failing ones included, with session
   results already stored *)

\* the session stores the writes may find: none, or one result of deck d1
StoredSessions ==
  { <<>>,
    putSession(<<>>, [deckId |-> "d1", date |-> 1, totalCards |-> 1, correctCount |-> 1,
                      incorrectCount |-> 0, durationSeconds |-> 0]) }

\* (mutant) the listeners are told of a write that was rejected
writeRejectedNotifies(dev, event) ==
  /\ decks' = decks
  /\ notifyListeners(dev, event, decks[dev])
  /\ UNCHANGED <<commitLog, lastSave>>

\* saveDeck / deleteDeck when `await db.put` / `await db.delete` rejects: the
\* statements after the await do not run and the promise of the caller rejects
writeRejected(dev, event) ==
  UNCHANGED <<decks, received, sent, commitLog, lastSave>>

\* what the caller of a rejected write holds
Rejected(event) == [op |-> "rejected", type |-> event.type]

StoreSaveFails ==
  \E deck \in SampleDecks, fromSync \in BOOLEAN :
    /\ writeRejected("A", DeckUpdate(deck, fromSync))
    /\ lastOp' = Rejected(DeckUpdate(deck, fromSync))
    /\ UNCHANGED <<viewVars, linkVars, now, probes, base, tracing,
                   cloud, sync, ops, prevMerge, twice>>

StoreDeleteFails ==
  \E id \in DeckIds, fromSync \in BOOLEAN :
    /\ writeRejected("A", DeckDelete(id, fromSync))
    /\ lastOp' = Rejected(DeckDelete(id, fromSync))
    /\ UNCHANGED <<viewVars, linkVars, now, probes, base, tracing,
                   cloud, sync, ops, prevMerge, twice>>

InitStoreWrites ==
  /\ now = 2
  /\ decks = [dev \in Devs |-> <<>>]
  /\ probes = {"l1"}
  /\ received = [l \in Probes |-> <<>>]
  /\ base = [l \in Probes |-> 0]
  /\ commitLog = <<>>
  /\ lastSave = NoSave
  /\ tracing = TRUE
  /\ cloud = <<>>
  /\ sync = Idle
  /\ ops = 0
  /\ lastOp = NoOp
  /\ prevMerge = NoMerge
  /\ twice = NoPair
  /\ InitPeers
  /\ run = NoRun
  /\ sessions \in StoredSessions
  /\ editor = NoEditor
  /\ jobs = IdleJobs
  /\ InitDashboard

NextStoreWrites ==
  \/ StoreSave
  \/ StoreDelete
  \/ StoreSaveFails
  \/ StoreDeleteFails

SpecStoreWrites == InitStoreWrites /\ [][NextStoreWrites]_vars

\* the event deleteDeck(id, fromSync) hands to a listener that finds the
\* delete committed
DeleteSeen(id, fromSync) ==
  [event |-> [type |-> "DECK_DELETE", payload |-> [id |-> id, fromSync |-> fromSync]],
   committed |-> TRUE]

\* C25: a step that commits deleteDeck(id, fromSync) leaves no deck of that id,
\* leaves every other deck and every session result as they were, and hands
\* each subscriber exactly one DECK_DELETE event carrying id and fromSync,
\* whether or not a deck of that id was stored.
C25_DeleteDeck ==
  [][\A id \in DeckIds, fromSync \in BOOLEAN :
       commitLog' = Append(commitLog, DeleteSeen(id, fromSync).event) =>
         /\ DOMAIN decks'["A"] = DOMAIN decks["A"] \ {id}
         /\ \A k \in DOMAIN decks'["A"] : decks'["A"][k] = decks["A"][k]
         /\ sessions' = sessions
         /\ \A l \in probes : received'[l] = Append(received[l], DeleteSeen(id, fromSync))]_vars

\* a deck d2 was saved, then d1, never stored, was deleted, then d2 was
\* deleted; the result of deck d1 is still stored and the subscriber heard
\* all three events
C25_Witness ==
  /\ Len(commitLog) = 3
  /\ commitLog[1].type = "DECK_UPDATE" /\ commitLog[1].payload.deck.id = "d2"
  /\ commitLog[2] = DeleteSeen("d1", TRUE).event
  /\ commitLog[3] = DeleteSeen("d2", FALSE).event
  /\ decks["A"] = <<>>
  /\ \E d \in DOMAIN sessions : sessions[d].deckId = "d1"
  /\ Len(received["l1"]) = 3
  /\ received["l1"][2] = DeleteSeen("d1", TRUE)

\* C30: a step in which the write of saveDeck or deleteDeck is rejected
\* notifies no subscriber, relays nothing, and leaves the stored decks and the
\* log of committed writes as they were; no step the caller did not ask for
\* commits the write later.
C30_RejectedWrite ==
  [][(lastOp'.op = "rejected" /\ lastOp' # lastOp) =>
       /\ decks' = decks
       /\ received' = received
       /\ sent' = sent
       /\ commitLog' = commitLog]_vars

\* deck d1 was saved and a later delete was rejected: d1 is still stored and
\* the subscriber heard the one event of the save
C30_Witness ==
  /\ lastOp = Rejected(DeleteSeen("d1", FALSE).event)
  /\ Len(commitLog) = 1
  /\ "d1" \in DOMAIN decks["A"]
  /\ Len(received["l1"]) = 1
  /\ received["l1"][1].event.type = "DECK_UPDATE"

----------------------------------------------------------------------------
(* Peer Broadcast keeps no queue of its own, checked under SpecP2P *)

\* the message a step has put on connection end e
Queued(e) == sent'[e][Len(sent'[e])]

\* C26: a local store mutation committed while this.conn is absent or not
\* open puts nothing on any connection; the only message a step without a
\* local mutation puts on a connection is the handshake of a connection of
\* the device that opens in that step; and a SYNC message
\* goes out only in the step of the local mutation it announces, on the
\* connection that is this.conn and open at that moment.
C26_NothingQueued ==
  [][/\ \A dev \in Devs :
          (localOps'[dev] # localOps[dev] /\ ~isOpen(ends, svc[dev].conn)) => sent' = sent
     /\ \A e \in EndIds :
          Len(sent'[e]) > Len(sent[e]) =>
            IF Queued(e).type = "HANDSHAKE"
            THEN /\ localOps' = localOps
                 /\ \E f \in EndIds : /\ Owner(f) = Owner(e)
                                      /\ ends[f].st = "new" /\ ends'[f].st = "open"
            ELSE /\ localOps'[Owner(e)] = localOps[Owner(e)] + 1
                 /\ svc[Owner(e)].conn = e
                 /\ isOpen(ends, e)]_vars

\* device A saved its edit of d1 before its connection opened; now both ends
\* are open, the handshakes were delivered, nothing is on its way, and device
\* B never got the deck
C26_Witness ==
  /\ localOps["A"] = 1
  /\ "d1" \in DOMAIN decks["A"] /\ decks["A"]["d1"] = EditedBy("A")
  /\ decks["B"] = <<>>
  /\ \E e \in EndIds :
       /\ Owner(e) = "A" /\ svc["A"].conn = e
       /\ isOpen(ends, e) /\ isOpen(ends, Other(e))
  /\ \A e \in EndIds : sent[e] = <<>>
  /\ \A dev \in Devs : inbox[dev] = <<>>

----------------------------------------------------------------------------
(* SpecScan: runAutoSync over two decks, with bins that are missing, as old
   as the local deck, or newer *)

\* device A holds d1, linked to k1, and d2, linked to k2 or not linked; the
\* bin of k1 is missing, as A left it, or newer; the bin of k2 is missing or
\* newer than d2
InitScan ==
  LET d1 == MkDeck("d1", "n1", <<Card("c1", "m1")>>, 1, "k1", 1)
      linked == MkDeck("d2", "n1", <<Card("c2", "m2")>>, 1, "k2", 1)
      unlinked == MkDeck("d2", "n1", <<Card("c2", "m2")>>, 1, "", 0)
      newer1 == MkDeck("d1", "n2", <<Card("c1", "m1"), Card("c2", "m2")>>, 2, "k1", 1)
      newer2 == MkDeck("d2", "n2", <<Card("c2", "m2")>>, 2, "k2", 1)
  IN /\ now = 2
     /\ \E d2 \in {linked, unlinked} :
          decks = [dev \in Devs |-> IF dev = "A" THEN ("d1" :> d1) @@ ("d2" :> d2) ELSE <<>>]
     /\ probes = {"l1"}
     /\ received = [l \in Probes |-> <<>>]
     /\ base = [l \in Probes |-> 0]
     /\ commitLog = <<>>
     /\ lastSave = NoSave
     /\ tracing = FALSE
     /\ \E bin1 \in {<<>>, "k1" :> skeletonDeck(d1), "k1" :> skeletonDeck(newer1)} :
          \E bin2 \in {<<>>, "k2" :> skeletonDeck(newer2)} :
            cloud = bin1 @@ bin2
     /\ sync = Idle
     /\ ops = 0
     /\ lastOp = NoOp
     /\ prevMerge = NoMerge
     /\ twice = NoPair
     /\ InitPeers
     /\ InitSessions
     /\ InitDashboard

NextScan ==
  \/ SyncTick
  \/ RemoteWrite
  \/ runAutoSyncStart
  \/ runAutoSyncCheck
  \/ handleSyncProcessDownload
  \/ handleSyncProcessCard
  \/ handleSyncProcessSave

SpecScan == InitScan /\ [][NextScan]_vars

\* every await of runAutoSync and of handleSyncProcess settles: the fetch of
\* downloadDeck, the image generation and the store write resolve or reject
SpecScanFair ==
  /\ SpecScan
  /\ WF_vars(runAutoSyncCheck)
  /\ WF_vars(handleSyncProcessDownload)
  /\ WF_vars(handleSyncProcessCard)
  /\ WF_vars(handleSyncProcessSave)

\* a step of the scan in which the download of the check or of the reconcile
\* fails
ScanFailure ==
  /\ sync' # sync
  /\ sync.from = "scan"
  /\ sync.pc \in {"scan", "download"}
  /\ sync'.pc \in {"scan", "idle"}
  /\ sync'.failure # NoFailure

\* C27: while a scan runs, the decks it has yet to check are those it started
\* with, less the ones dealt with: a step keeps them or drops the first, and
\* the scan ends only with its last deck.  A failed download changes no stored
\* deck and leaves the scan at the next deck.  Every deck the scan downloads
\* or reconciles is linked, and no step changes or removes a stored deck
\* without a cloudSyncId.  Every scan ends.
C27_ScanGoesOn ==
  /\ [][/\ sync.from = "scan" =>
             /\ sync.queue # <<>>
             /\ \A i \in 1..Len(sync.queue) : sync.queue[i].cloudSyncId # ""
             /\ sync.pc # "scan" =>
                  sync.cloudId = Head(sync.queue).cloudSyncId /\ sync.existing = Head(sync.queue)
             /\ sync'.from = "scan" => sync'.queue \in {sync.queue, Tail(sync.queue)}
             /\ sync'.from # "scan" => Len(sync.queue) = 1 /\ sync'.pc = "idle"
        /\ ScanFailure =>
             /\ decks' = decks
             /\ sync'.queue = Tail(sync.queue)
             /\ Len(sync.queue) > 1 => sync'.pc = "scan"
        /\ \A id \in DOMAIN decks["A"] :
             decks["A"][id].cloudSyncId = "" =>
               id \in DOMAIN decks'["A"] /\ decks'["A"][id] = decks["A"][id]]_vars
  /\ (sync.from = "scan" ~> sync.pc = "idle")

\* the check of d1 failed, and the scan went on to d2, found its bin newer
\* and is reconciling it
C27_Witness ==
  /\ sync.from = "scan"
  /\ sync.failure # NoFailure
  /\ sync.pc = "cards"
  /\ sync.existing.id = "d2"
  /\ sync.cloudId = "k2"
  /\ decks["A"]["d1"].updatedAt = 1

----------------------------------------------------------------------------
(* DeckEditor: src/unnamed/part_000.  null and '' are both "", as every test
   the editor makes of them is one of truthiness *)

\* what the user may type into the Target Name field
TypedLabels == {" ", "jump"}

\* String.prototype.trim on the labels above
trim(label) == IF label = " " THEN "" ELSE label

\* the files the user may pick: an image, and a video or GIF
Files ==
  { [name |-> "photo", type |-> "image/png", dataUri |-> "u1"],
    [name |-> "clip", type |-> "video/mp4", dataUri |-> "u2"] }

\* file.type.includes('video') || file.type.includes('gif') ? 'video' : 'image'
uploadedType(file) == IF file.type = "video/mp4" THEN "video" ELSE "image"

CreationModes == {"static", "burst", "moving"}

\* the ids uuidv4() hands out
FreshIds == <<"e1", "e2", "e3", "e4">>

\* what generateStimulusVariations / generateVideoFromDescription may return:
\* two images or none (those that failed are filtered out), the frames of a
\* burst or none, a video URI or null
Generated(mode) ==
  IF mode = "moving" THEN {<<>>, <<"v1">>}
  ELSE IF mode = "burst" THEN {<<>>, <<"f3", "f4">>}
  ELSE {<<>>, <<"g1", "g2">>}

\* setGeneratedItems(...) of handleGenerate, by creationMode
generatedItems(mode, uris, targetToUse) ==
  IF uris = <<>> THEN <<>>
  ELSE IF mode = "moving"
  THEN << [mediaUri |-> uris[1], description |-> targetToUse, mediaType |-> "video"] >>
  ELSE IF mode = "burst"
  THEN << [mediaUri |-> uris[1], burstUris |-> uris, description |-> targetToUse,
           mediaType |-> "burst"] >>
  ELSE [i \in 1..Len(uris) |->
          [mediaUri |-> uris[i], description |-> "a description", mediaType |-> "image"]]

\* Array.from(new Set(cards.map(c => c.label)))
uniqueLabels(cards) ==
  LET firsts == {i \in 1..Len(cards) : \A j \in 1..(i - 1) : cards[j].label # cards[i].label}
      n == Cardinality(firsts)
      order == CHOOSE f \in [1..n -> firsts] : \A i, j \in 1..n : i < j => f[i] < f[j]
  IN [k \in 1..n |-> cards[order[k]].label]

\* targetLabels.includes(label)
includes(labels, label) == \E i \in 1..Len(labels) : labels[i] = label

\* the editor as useState and the two mount effects leave it: the Deck of the
\* model carries no targetLabels, so they come from the cards
mountEditor(deck) ==
  LET targets == uniqueLabels(deck.cards)
      active == IF targets = <<>> THEN "" ELSE targets[1]
  IN [cards |-> deck.cards, targetLabels |-> targets, activeTarget |-> active,
      editingCardId |-> "", currentLabel |-> active, currentMediaUri |-> "",
      currentMediaType |-> "image", currentBurstUris |-> <<>>,
      currentDescription |-> "", generatedItems |-> <<>>, selectedIndices |-> {},
      creationMode |-> "static", clicks |-> 0]

\* resetEditor()
afterReset(ed) ==
  [ed EXCEPT !.editingCardId = "", !.currentLabel = ed.activeTarget,
             !.currentMediaUri = "", !.currentMediaType = "image",
             !.currentBurstUris = <<>>, !.currentDescription = "",
             !.generatedItems = <<>>, !.selectedIndices = {}]

\* x.burstUris || []
burstUrisOrEmpty(x) == IF "burstUris" \in DOMAIN x THEN x.burstUris ELSE <<>>

\* filteredCards: the cards the grid shows
filteredCards(ed) ==
  IF ed.activeTarget # "" THEN SelectSeq(ed.cards, LAMBDA c : c.label = ed.activeTarget)
  ELSE ed.cards

\* one action of the user on the mounted editor, MaxClicks of them at most
EditorStep(next) ==
  /\ editor # NoEditor
  /\ editor.clicks < MaxClicks
  /\ editor' = [next EXCEPT !.clicks = editor.clicks + 1]
  /\ UNCHANGED <<now, storeVars, syncVars, peerVars, run, sessions, dashDecks, jobs>>

\* a click on a card of the grid: handleEditCard(card)
handleEditCard ==
  /\ editor # NoEditor
  /\ \E i \in 1..Len(filteredCards(editor)) :
    LET card == filteredCards(editor)[i] IN
    EditorStep([editor EXCEPT
      !.editingCardId = card.id, !.currentLabel = card.label,
      !.currentMediaUri = card.mediaUri, !.currentMediaType = card.mediaType,
      !.currentBurstUris = burstUrisOrEmpty(card),
      !.currentDescription = card.originalDescription,
      !.generatedItems = <<>>, !.selectedIndices = {}])

\* the X button, shown while a card is edited
resetEditor ==
  /\ editor # NoEditor
  /\ editor.editingCardId # ""
  /\ EditorStep(afterReset(editor))

\* handleFileUpload and the onload of its FileReader
handleFileUpload ==
  /\ editor # NoEditor
  /\ \E file \in Files :
    EditorStep([editor EXCEPT
      !.currentMediaUri = file.dataUri,
      !.currentMediaType = uploadedType(file),
      !.currentLabel = IF editor.currentLabel # "" THEN editor.currentLabel
                       ELSE IF editor.activeTarget # "" THEN editor.activeTarget
                       ELSE file.name])

\* the Target Name field: setCurrentLabel(e.target.value)
typeLabel ==
  \E label \in TypedLabels :
    /\ editor # NoEditor
    /\ label # editor.currentLabel
    /\ EditorStep([editor EXCEPT !.currentLabel = label])

\* the three mode buttons: setCreationMode
setCreationMode ==
  \E mode \in CreationModes :
    /\ editor # NoEditor
    /\ mode # editor.creationMode
    /\ EditorStep([editor EXCEPT !.creationMode = mode])

\* the target buttons and SHOW ALL: setActiveTarget, and the effect that
\* copies a target into currentLabel
setActiveTarget ==
  /\ editor # NoEditor
  /\ \E target \in {editor.targetLabels[i] : i \in 1..Len(editor.targetLabels)} \cup {""} :
       /\ target # editor.activeTarget
       /\ EditorStep([editor EXCEPT
            !.activeTarget = target,
            !.currentLabel = IF target # "" THEN target ELSE editor.currentLabel])

\* the Generate button and handleGenerate, with what the service returned
handleGenerate ==
  /\ editor # NoEditor
  /\ editor.currentLabel # "" \/ editor.activeTarget # ""
  /\ LET targetToUse == IF trim(editor.currentLabel) # "" THEN trim(editor.currentLabel)
                        ELSE editor.activeTarget
     IN IF targetToUse = "" THEN EditorStep(editor)
        ELSE \E uris \in Generated(editor.creationMode) :
               LET items == generatedItems(editor.creationMode, uris, targetToUse) IN
               EditorStep([editor EXCEPT !.generatedItems = items,
                                         !.selectedIndices = 1..Len(items)])

\* a click on a generated item: toggleSelection(index)
toggleSelection ==
  /\ editor # NoEditor
  /\ \E index \in 1..Len(editor.generatedItems) :
       EditorStep([editor EXCEPT !.selectedIndices =
         IF editor.editingCardId # "" \/ editor.creationMode # "static" THEN {index}
         ELSE IF index \in @ THEN @ \ {index} ELSE @ \cup {index}])

\* the trash button of a card: setCards(cards.filter(c => c.id !== card.id))
removeCard ==
  /\ editor # NoEditor
  /\ \E i \in 1..Len(filteredCards(editor)) :
       LET id == filteredCards(editor)[i].id IN
       EditorStep([editor EXCEPT !.cards = SelectSeq(@, LAMBDA c : c.id # id)])

\* what prompt() returns to handleAddTarget: null or '' when the user
\* cancels or leaves it empty, or the name typed
PromptNames == {"", "jump"}

\* the + button of the sidebar: handleAddTarget, and the effect that copies
\* the new activeTarget into currentLabel
handleAddTarget ==
  /\ editor # NoEditor
  /\ \E name \in PromptNames :
       EditorStep(IF name # "" /\ ~includes(editor.targetLabels, name)
                  THEN [editor EXCEPT !.targetLabels = Append(@, name),
                                      !.activeTarget = name,
                                      !.currentLabel = name]
                  ELSE editor)

\* handleRemoveTarget(target) on the editor state ed, confirmed: the new
\* activeTarget is read off the targetLabels of the render, which still
\* holds the removed target
afterRemoveTarget(ed, target) ==
  LET active == IF ed.activeTarget = target
                THEN IF ed.targetLabels = <<>> THEN "" ELSE ed.targetLabels[1]
                ELSE ed.activeTarget
  IN [ed EXCEPT !.targetLabels = SelectSeq(@, LAMBDA t : t # target),
                !.cards = SelectSeq(@, LAMBDA c : c.label # target),
                !.activeTarget = active,
                !.currentLabel = IF active # ed.activeTarget /\ active # ""
                                 THEN active ELSE @]

\* the trash button of a target: handleRemoveTarget, confirmed or not
handleRemoveTarget ==
  /\ editor # NoEditor
  /\ \E i \in 1..Len(editor.targetLabels), confirmed \in BOOLEAN :
       EditorStep(IF confirmed THEN afterRemoveTarget(editor, editor.targetLabels[i])
                  ELSE editor)

\* (mutant) a save button that is never disabled
saveDisabledNever(ed) == FALSE

\* the disabled attribute of the save button
saveDisabled(ed) ==
  \/ ed.currentLabel = "" /\ ed.activeTarget = ""
  \/ ed.generatedItems = <<>> /\ ed.currentMediaUri = ""
  \/ ed.generatedItems # <<>> /\ ed.selectedIndices = {}

\* const targetToSave = currentLabel.trim() || activeTarget
targetToSave(ed) == IF trim(ed.currentLabel) # "" THEN trim(ed.currentLabel) ELSE ed.activeTarget

\* the target is put in the sidebar before the media is looked at
withTarget(ed) ==
  IF includes(ed.targetLabels, targetToSave(ed)) THEN ed
  ELSE [ed EXCEPT !.targetLabels = Append(@, targetToSave(ed))]

\* Array.from(selectedIndices)[0]: the index selected first; an edit keeps
\* one index selected at most, and all of them after a static generation
firstSelected(ed) ==
  IF ed.selectedIndices = {} THEN 0
  ELSE CHOOSE i \in ed.selectedIndices : \A j \in ed.selectedIndices : i <= j

\* what the edit branch saves: the current media, or the selected item
editSource(ed) ==
  IF ed.generatedItems # <<>> /\ firstSelected(ed) # 0
  THEN LET item == ed.generatedItems[firstSelected(ed)] IN
       [mediaUri |-> item.mediaUri, mediaType |-> item.mediaType,
        burstUris |-> burstUrisOrEmpty(item), description |-> item.description]
  ELSE [mediaUri |-> ed.currentMediaUri, mediaType |-> ed.currentMediaType,
        burstUris |-> ed.currentBurstUris, description |-> ed.currentDescription]

\* the card the edit branch puts in the place of card c
editedCard(c, ed) ==
  LET src == editSource(ed)
      changed == [c EXCEPT !.label = targetToSave(ed), !.mediaUri = src.mediaUri,
                           !.mediaType = src.mediaType,
                           !.originalDescription =
                             IF src.description # "" THEN src.description ELSE c.label]
  IN [f \in DOMAIN c \cup {"burstUris"} |->
        IF f = "burstUris" THEN src.burstUris ELSE changed[f]]

\* itemsToAdd of the add branch
itemsToAdd(ed) ==
  IF ed.generatedItems # <<>>
  THEN LET chosen == {i \in 1..Len(ed.generatedItems) : i \in ed.selectedIndices}
           n == Cardinality(chosen)
           order == CHOOSE f \in [1..n -> chosen] : \A i, j \in 1..n : i < j => f[i] < f[j]
       IN [k \in 1..n |-> ed.generatedItems[order[k]]]
  ELSE IF ed.currentMediaUri # ""
  THEN << [mediaUri |-> ed.currentMediaUri, description |-> targetToSave(ed),
           mediaType |-> ed.currentMediaType, burstUris |-> ed.currentBurstUris] >>
  ELSE <<>>

\* the k-th id uuidv4() returns that no card of the list carries
freshId(cards, k) ==
  LET free == {i \in 1..Len(FreshIds) : \A j \in 1..Len(cards) : cards[j].id # FreshIds[i]}
      order == CHOOSE f \in [1..Cardinality(free) -> free] :
                 \A i, j \in 1..Cardinality(free) : i < j => f[i] < f[j]
  IN FreshIds[order[k]]

\* the card the add branch makes of an item: burstUris is the item's, absent
\* if the item has none
newCard(item, id, label) ==
  LET card == [id |-> id, label |-> label, mediaUri |-> item.mediaUri,
               mediaType |-> item.mediaType, originalDescription |-> item.description,
               createdAt |-> now]
  IN IF "burstUris" \in DOMAIN item
     THEN [f \in DOMAIN card \cup {"burstUris"} |->
             IF f = "burstUris" THEN item.burstUris ELSE card[f]]
     ELSE card

\* handleSaveCard as the handler runs it on the editor state ed
afterSaveCard(ed) ==
  IF targetToSave(ed) = "" THEN ed
  ELSE IF ed.editingCardId # ""
  THEN IF editSource(ed).mediaUri = "" THEN withTarget(ed)
       ELSE afterReset([withTarget(ed) EXCEPT !.cards =
              [i \in 1..Len(ed.cards) |->
                 IF ed.cards[i].id = ed.editingCardId
                 THEN editedCard(ed.cards[i], ed) ELSE ed.cards[i]]])
  ELSE IF itemsToAdd(ed) = <<>> THEN withTarget(ed)
       ELSE afterReset([withTarget(ed) EXCEPT !.cards =
              ed.cards \o [k \in 1..Len(itemsToAdd(ed)) |->
                             newCard(itemsToAdd(ed)[k], freshId(ed.cards, k),
                                     targetToSave(ed))]])

\* a press of the save button: nothing while it is disabled, else handleSaveCard
handleSaveCard ==
  /\ editor # NoEditor
  /\ Len(editor.cards) + Len(itemsToAdd(editor)) <= MaxCards
  /\ EditorStep(IF saveDisabled(editor) THEN editor ELSE afterSaveCard(editor))

\* the decks the editor is opened on: no card, a burst, an image and a burst
EditorDecks ==
  { MkDeck("d1", "n1", cs, 1, "", 0) :
      cs \in {<<>>, <<Card("c2", "m2")>>, <<Card("c1", "m1"), Card("c2", "m2")>>} }

InitEditor ==
  /\ now = 2
  /\ \E deck \in EditorDecks :
       /\ decks = [dev \in Devs |-> IF dev = "A" THEN ("d1" :> deck) ELSE <<>>]
       /\ editor = mountEditor(deck)
  /\ probes = {"l1"}
  /\ received = [l \in Probes |-> <<>>]
  /\ base = [l \in Probes |-> 0]
  /\ commitLog = <<>>
  /\ lastSave = NoSave
  /\ tracing = FALSE
  /\ cloud = <<>>
  /\ sync = Idle
  /\ ops = 0
  /\ lastOp = NoOp
  /\ prevMerge = NoMerge
  /\ twice = NoPair
  /\ InitPeers
  /\ run = NoRun
  /\ sessions = <<>>
  /\ jobs = IdleJobs
  /\ InitDashboard

NextEditor ==
  \/ handleEditCard
  \/ resetEditor
  \/ handleFileUpload
  \/ typeLabel
  \/ setCreationMode
  \/ setActiveTarget
  \/ handleGenerate
  \/ toggleSelection
  \/ removeCard
  \/ handleAddTarget
  \/ handleRemoveTarget
  \/ handleSaveCard

SpecEditor == InitEditor /\ [][NextEditor]_vars

----------------------------------------------------------------------------
(* Claims about the DeckEditor, checked under SpecEditor *)

\* the cards a step of the editor has added to the list or changed in it
Written == {editor'.cards[i] : i \in 1..Len(editor'.cards)}
             \ {editor.cards[i] : i \in 1..Len(editor.cards)}

\* a save-card attempt without a label, or without media to save
EmptyLabel(ed) == trim(ed.currentLabel) = "" /\ ed.activeTarget = ""
NoMedia(ed) ==
  IF ed.generatedItems = <<>> THEN ed.currentMediaUri = "" ELSE ed.selectedIndices = {}

\* C28: every card a step of the editor adds to its list or changes in it has
\* a label that is not empty after trimming and a mediaUri that is not empty;
\* a press of the save button with no label or no media to save leaves the
\* whole state of the editor, its targets included, as it was.
C28_SavedCards ==
  [][editor # NoEditor =>
       /\ \A c \in Written : trim(c.label) # "" /\ c.mediaUri # ""
       /\ (handleSaveCard /\ (EmptyLabel(editor) \/ NoMedia(editor))) =>
            [editor' EXCEPT !.clicks = editor.clicks] = editor]_vars

\* on an empty deck the user typed a label, generated two images and saved:
\* two cards were added under that label
C28_Witness ==
  /\ editor # NoEditor
  /\ Len(editor.cards) = 2
  /\ editor.cards[1].id = "e1" /\ editor.cards[2].id = "e2"
  /\ editor.cards[1].label = "jump" /\ editor.cards[1].mediaUri = "g1"
  /\ editor.cards[2].label = "jump" /\ editor.cards[2].mediaUri = "g2"
  /\ editor.generatedItems = <<>>
  /\ includes(editor.targetLabels, "jump")

\* burstUris is there and not empty
HasBurstUris(card) == "burstUris" \in DOMAIN card /\ card.burstUris # <<>>

\* C29 as the spec states it: every card a step of the editor adds to its
\* list or changes in it has a non-empty burstUris exactly if its mediaType
\* is burst.
C29_AsStated ==
  [][editor # NoEditor =>
       \A c \in Written : HasBurstUris(c) <=> c.mediaType = "burst"]_vars

----------------------------------------------------------------------------
(* SpecCross: two connected devices that both edit, so that their SYNC
   messages may cross *)

\* App.handleSaveDeck on a device that has made fewer than MaxLocal changes
crossSaveDeck ==
  \E dev \in Devs :
    /\ localOps[dev] < MaxLocal
    /\ saveDeck(dev, EditedBy(dev), FALSE)
    /\ localOps' = [localOps EXCEPT ![dev] = @ + 1]
    /\ dashDecks' = IF dev = "A" THEN loadData(decks'["A"]) ELSE dashDecks
    /\ UNCHANGED <<sessVars, now, probes, base, tracing, syncVars, svc, peers, ends, inbox, status>>

\* handleDeleteDeck on such a device
crossDeleteDeck ==
  \E dev \in Devs :
    /\ localOps[dev] < MaxLocal
    /\ deleteDeck(dev, "d1", FALSE)
    /\ localOps' = [localOps EXCEPT ![dev] = @ + 1]
    /\ dashDecks' = IF dev = "A" THEN loadData(decks'["A"]) ELSE dashDecks
    /\ UNCHANGED <<sessVars, now, probes, base, tracing, syncVars, svc, peers, ends, inbox, status>>

\* A and B are connected and hold the same deck d1, or B holds none
InitCross ==
  LET d1 == MkDeck("d1", "n1", <<>>, 1, "", 0) IN
  /\ now = 2
  /\ \E held \in {<<>>, "d1" :> d1} :
       decks = [dev \in Devs |-> IF dev = "A" THEN ("d1" :> d1) ELSE held]
  /\ probes = {"l1"}
  /\ received = [l \in Probes |-> <<>>]
  /\ base = [l \in Probes |-> 0]
  /\ commitLog = <<>>
  /\ lastSave = NoSave
  /\ tracing = FALSE
  /\ cloud = <<>>
  /\ sync = Idle
  /\ ops = 0
  /\ lastOp = NoOp
  /\ prevMerge = NoMerge
  /\ twice = NoPair
  /\ Connected
  /\ InitSessions
  /\ InitDashboard

CrossConnData == \E e \in EndIds : connData(e)
CrossHandleMessage == \E dev \in Devs : handleMessage(dev)

NextCross ==
  \/ StoreTick
  \/ crossSaveDeck
  \/ crossDeleteDeck
  \/ CrossConnData
  \/ CrossHandleMessage

SpecCross == InitCross /\ [][NextCross]_vars

\* nothing is on its way and nothing waits for the store, on a connection
\* that is open at both ends
Delivered ==
  /\ \A e \in EndIds : ends[e].st = "open" /\ sent[e] = <<>>
  /\ \A dev \in Devs : inbox[dev] = <<>>

\* C31 as stated: once both devices have changed deck d1 while connected and
\* every message has been delivered and applied, the two stores hold the same
\* version of d1, or both hold none.
C31_AsStated ==
  (Delivered /\ \A dev \in Devs : localOps[dev] > 0) =>
    getDeck("A", "d1") = getDeck("B", "d1")

----------------------------------------------------------------------------
(* One live peer and connection, checked under SpecP2P *)

\* the peers of a device that were created and neither destroyed nor failed
LivePeers(dev) ==
  {p \in PeerIds : peers[p].owner = dev /\ peers[p].state \in {"pending", "open"}}

\* the connections of a device that were handed to handleConnection and are
\* not closed
LiveConns(dev) ==
  {e \in EndIds : Owner(e) = dev /\ ends[e].st \in {"new", "open"}}

\* C32 as stated: a device has at most one live peer and at most one live
\* connection at any time, a peer that has not yet registered included.
C32_AsStated ==
  \A dev \in Devs : Cardinality(LivePeers(dev)) <= 1 /\ Cardinality(LiveConns(dev)) <= 1

----------------------------------------------------------------------------
(* Scans against a cloud and a store that change meanwhile, checked under
   SpecSync *)

\* the step in which a reconcile that a scan started saves its merged deck
ScanSaves == sync.pc = "cards" /\ sync.from = "scan" /\ sync'.pc # "cards"

\* C33 as stated: the deck a scan persists is built from the remote snapshot
\* whose updatedAt the scan compared with the local deck, and its updatedAt
\* is greater than that of the local deck the scan compared.
C33_AsStated ==
  [][ScanSaves =>
       /\ sync.remoteDeck = sync.seen
       /\ decks'["A"][sync.existing.id].updatedAt > sync.existing.updatedAt]_vars

\* the step in which a reconcile saves its merged deck over a stored deck
\* that was saved again, with a greater updatedAt, after the reconcile or its
\* scan had read it
SavesOverEdit ==
  /\ sync.pc = "cards" /\ sync'.pc # "cards"
  /\ sync.existing # NoDeck
  /\ sync.existing.id \in DOMAIN decks["A"]
  /\ decks["A"][sync.existing.id].updatedAt > sync.existing.updatedAt

\* C34 as stated: a reconcile that saves over such an edit leaves a version
\* of the deck whose updatedAt is at least that of the edit.
C34_AsStated ==
  [][SavesOverEdit =>
       decks'["A"][sync.existing.id].updatedAt >= decks["A"][sync.existing.id].updatedAt]_vars

\* the last mutation applied the remote version of a deck from a scan, or
\* pushed the device's own version of it (editor save, rename, manual push),
\* and neither the bin nor the stored deck has changed since
Settled ==
  /\ lastOp # NoOp
  /\ "op" \in DOMAIN lastOp
  /\ \/ lastOp.op = "reconcile" /\ lastOp.from = "scan"
        /\ downloadDeck(lastOp.cloudId) = lastOp.remote
     \/ lastOp.op \in {"editorSave", "rename", "push"} /\ lastOp.sent # NoDeck
        /\ downloadDeck(lastOp.cloudId) = skeletonDeck(lastOp.sent)
  /\ lastOp.after.id \in DOMAIN decks["A"]
  /\ decks["A"][lastOp.after.id] = lastOp.after

\* a scan that read the settled deck has come to it
FollowingScan ==
  /\ Settled
  /\ sync.pc = "scan"
  /\ Head(sync.queue) = lastOp.after

\* C35: the scan that follows an applied remote version or a push, with no
\* remote or local change in between, does not start a reconcile for the
\* deck, and so saves nothing, generates nothing and emits no event.
C35_Fixpoint ==
  FollowingScan =>
    ~shouldApply(downloadDeck(Head(sync.queue).cloudSyncId), Head(sync.queue))

C35_Witness ==
  /\ FollowingScan
  /\ lastOp.op = "reconcile"
  /\ lastOp.after # lastOp.before

C35_WitnessPush ==
  /\ FollowingScan
  /\ lastOp.op \in {"editorSave", "rename", "push"}

----------------------------------------------------------------------------
(* Reconciles that fail, with a peer connected *)

\* a bin somebody has overwritten with JSON that has no card list
NoCardsSnapshot == [id |-> "d1", name |-> "n2", updatedAt |-> 2]

\* as InitRelay, but the bin of d1 may also hold a snapshot without cards
InitFail ==
  LET d1 == MkDeck("d1", "n1", <<Card("c1", "m1")>>, 1, "k1", 1)
      theirs == MkDeck("d1", "n2", <<Card("c1", "m1"), Card("c2", "m2")>>, 2, "k1", 1)
  IN /\ now = 2
     /\ decks = [dev \in Devs |-> IF dev = "A" THEN ("d1" :> d1) ELSE <<>>]
     /\ probes = {"l1"}
     /\ received = [l \in Probes |-> <<>>]
     /\ base = [l \in Probes |-> 0]
     /\ commitLog = <<>>
     /\ lastSave = NoSave
     /\ tracing = FALSE
     /\ cloud \in {("k1" :> skeletonDeck(theirs)), ("k1" :> NoCardsSnapshot)}
     /\ sync = Idle
     /\ ops = 0
     /\ lastOp = NoOp
     /\ prevMerge = NoMerge
     /\ twice = NoPair
     /\ Connected
     /\ InitSessions
     /\ InitDashboard

NextFail ==
  \/ runAutoSyncStart
  \/ runAutoSyncCheck
  \/ openSharedLink
  \/ pullFromCloud
  \/ joinByCode
  \/ handleSyncProcessDownload
  \/ handleSyncProcessCard
  \/ handleSyncProcessSave
  \/ P2PConnData
  \/ P2PHandleMessage

SpecFail == InitFail /\ [][NextFail]_vars

\* the step in which handleSyncProcess fails before its save
ReconcileFails ==
  /\ sync.pc = "download"
  /\ sync'.pc \notin {"download", "cards"}

\* C36: a reconcile that fails before its save (the download rejected or
\* answered without success, or a snapshot without a card list) saves
\* nothing: no store changes, no change event is emitted, nothing is sent to
\* the peer, and the syncing indicator is cleared.
C36_FailedReconcile ==
  [][ReconcileFails =>
       /\ sync'.failure # NoFailure
       /\ decks' = decks
       /\ commitLog' = commitLog
       /\ received' = received
       /\ sent' = sent
       /\ inbox' = inbox
       /\ lastOp' = lastOp
       /\ syncing(sync)
       /\ ~syncing(sync')]_vars

\* a reconcile of the scan has failed on a snapshot without a card list while
\* the connection to the peer is open
C36_Witness ==
  /\ sync.failure # NoFailure
  /\ sync.failure.response = "nocards"
  /\ isOpen(ends, svc["A"].conn)
  /\ ops > 0

C36_WitnessDownload ==
  /\ sync.failure # NoFailure
  /\ sync.failure.response \in {"404", "500", "rejected"}
  /\ sync.failure.alert # ""

----------------------------------------------------------------------------
(* The counts of a saved SessionResult, checked under SpecSession *)

\* C37 as stated: the counts of every saved SessionResult add up to
\* totalCards, for any deck, the empty one included, and across Play Again.
C37_AsStated ==
  \A date \in DOMAIN sessions :
    sessions[date].correctCount + sessions[date].incorrectCount
      = sessions[date].totalCards

----------------------------------------------------------------------------
(* Scans that run side by side: the runAutoSync of the mount effect and the
   one of the Sync All button, each with its own locals, over the one
   syncing flag of the Dashboard.  One step per await *)

\* what a job step leaves alone besides the store and the flags
jobFrame == <<run, sessions, editor, linkVars, now, probes, base, tracing, syncVars>>

\* the loop of runAutoSync moves to its next deck; after the last one a
\* forced scan clears isRefreshing (its one-second timer taken as run)
jobNext(j, flags) ==
  LET job == jobs.procs[j] IN
  IF Len(job.queue) <= 1
  THEN [flags EXCEPT !.procs[j] = [IdleJob EXCEPT !.pc = "done"],
                     !.isRefreshing = IF j = "button" THEN FALSE ELSE @]
  ELSE [flags EXCEPT !.procs[j] = [IdleJob EXCEPT !.pc = "check", !.queue = Tail(job.queue)]]

\* runAutoSync(force) up to its loop; the mount effect calls it once, and the
\* button is out of reach while it is disabled or under the overlay
jobStart ==
  \E j \in JobIds :
    LET cloudDecks == SelectSeq(getAllDecks("A"), LAMBDA d : d.cloudSyncId # "") IN
    /\ jobs.procs[j].pc = "idle"
    /\ j = "button" => ~jobs.isRefreshing /\ ~jobs.syncing
    /\ jobs' = IF cloudDecks = <<>>
               THEN [jobs EXCEPT !.procs[j].pc = "done"]
               ELSE [jobs EXCEPT !.procs[j] = [IdleJob EXCEPT !.pc = "check",
                                                             !.queue = cloudDecks],
                                 !.isRefreshing = IF j = "button" THEN TRUE ELSE @]
    /\ UNCHANGED <<jobFrame, decks, received, commitLog, lastSave, sent, dashDecks>>

\* one iteration of the loop: the download, the comparison, and the call of
\* handleSyncProcess up to its first await, setSyncing(true) included
jobCheck ==
  \E j \in JobIds :
    LET d == Head(jobs.procs[j].queue)
        remote == downloadDeck(d.cloudSyncId)
    IN /\ jobs.procs[j].pc = "check"
       /\ \/ /\ remote # NoDeck
             /\ jobs' = IF shouldApply(remote, d)
                        THEN [jobs EXCEPT !.syncing = TRUE,
                                          !.procs[j].pc = "download",
                                          !.procs[j].cloudId = d.cloudSyncId,
                                          !.procs[j].existing = d]
                        ELSE jobNext(j, jobs)
          \/ \* downloadDeck throws: "Sync check failed for"
             jobs' = jobNext(j, jobs)
       /\ UNCHANGED <<jobFrame, decks, received, commitLog, lastSave, sent, dashDecks>>

\* handleSyncProcess: downloadDeck(cloudId); a failure runs the catch and the
\* finally, and the scan goes on
jobDownload ==
  \E j \in JobIds :
    LET remoteDeck == downloadDeck(jobs.procs[j].cloudId) IN
    /\ jobs.procs[j].pc = "download"
    /\ \/ /\ remoteDeck # NoDeck
          /\ "cards" \in DOMAIN remoteDeck
          /\ jobs' = [jobs EXCEPT !.procs[j].pc = "cards",
                                  !.procs[j].remoteDeck = remoteDeck]
       \/ jobs' = jobNext(j, [jobs EXCEPT !.syncing = FALSE])
    /\ UNCHANGED <<jobFrame, decks, received, commitLog, lastSave, sent, dashDecks>>

\* one iteration of the loop over remoteDeck.cards
jobCard ==
  \E j \in JobIds :
    LET job == jobs.procs[j] IN
    /\ job.pc = "cards"
    /\ Len(job.newCards) < Len(job.remoteDeck.cards)
    /\ LET card == job.remoteDeck.cards[Len(job.newCards) + 1]
           imageData == localMedia(job.existing, card.id)
       IN IF imageData # ""
          THEN jobs' = [jobs EXCEPT !.procs[j].newCards = Append(@, mergeCard(card, imageData))]
          ELSE \E outcome \in GenCalls :
                 jobs' = [jobs EXCEPT !.procs[j].newCards =
                                         Append(@, mergeCard(card, generatedMedia(outcome)))]
    /\ UNCHANGED <<jobFrame, decks, received, commitLog, lastSave, sent, dashDecks>>

\* handleSyncProcess after the loop: saveDeck(mergedDeck), loadData(), the
\* finally, and the return to the scan
jobSave ==
  \E j \in JobIds :
    LET job == jobs.procs[j]
        merged == mergedDeck(job.remoteDeck, job.existing, job.cloudId, job.newCards)
    IN /\ job.pc = "cards"
       /\ Len(job.newCards) = Len(job.remoteDeck.cards)
       /\ saveDeck("A", merged, reconcileFromSync(merged))
       /\ dashDecks' = loadData(decks'["A"])
       /\ jobs' = jobNext(j, [jobs EXCEPT !.syncing = FALSE])
       /\ UNCHANGED jobFrame

\* device A holds the deck d1 it published; another device has pushed an edit
\* of it since; the Dashboard has just been mounted
InitOverlap ==
  LET d1 == MkDeck("d1", "n1", <<Card("c1", "m1")>>, 1, "k1", 1)
      theirs == MkDeck("d1", "n2", <<Card("c1", "m1"), Card("c2", "m2")>>, 2, "k1", 1)
  IN /\ now = 2
     /\ decks = [dev \in Devs |-> IF dev = "A" THEN ("d1" :> d1) ELSE <<>>]
     /\ probes = {"l1"}
     /\ received = [l \in Probes |-> <<>>]
     /\ base = [l \in Probes |-> 0]
     /\ commitLog = <<>>
     /\ lastSave = NoSave
     /\ tracing = FALSE
     /\ cloud = ("k1" :> skeletonDeck(theirs))
     /\ sync = Idle
     /\ ops = 0
     /\ lastOp = NoOp
     /\ prevMerge = NoMerge
     /\ twice = NoPair
     /\ InitPeers
     /\ InitSessions
     /\ InitDashboard

NextOverlap ==
  \/ jobStart
  \/ jobCheck
  \/ jobDownload
  \/ jobCard
  \/ jobSave

SpecOverlap == InitOverlap /\ [][NextOverlap]_vars

\* a handleSyncProcess of the job is between its setSyncing(true) and its finally
Reconciling(j) == jobs.procs[j].pc \in {"download", "cards"}

\* C38 as stated: the syncing indicator is on whenever a reconcile is in
\* progress, overlapping ones included, and no deck is reconciled by two
\* operations at once.
C38_AsStated ==
  /\ (\E j \in JobIds : Reconciling(j)) => jobs.syncing
  /\ \A j, k \in JobIds :
       (j # k /\ Reconciling(j) /\ Reconciling(k)) =>
         jobs.procs[j].cloudId # jobs.procs[k].cloudId

----------------------------------------------------------------------------
(* The notified status and the connection in use, checked under SpecP2P *)

\* a step sends a SYNC_DECK or SYNC_DELETE on an end only if the status last
\* notified to its device is CONNECTED
SentWhileConnected ==
  \A e \in EndIds :
    ( /\ Len(sent'[e]) > Len(sent[e])
      /\ sent'[e][Len(sent'[e])].type # "HANDSHAKE" ) =>
      status[Owner(e)].cur = "CONNECTED"

\* a step applies a received message to the store only if the status last
\* notified to the device is CONNECTED
AppliedWhileConnected ==
  \A dev \in Devs :
    Len(inbox'[dev]) < Len(inbox[dev]) => status[dev].cur = "CONNECTED"

\* after a step, a device whose last notified status is CONNECTED holds an
\* open connection
ConnectedHoldsOpen ==
  \A dev \in Devs :
    status'[dev].cur = "CONNECTED" => isOpen(ends', svc'[dev].conn)

\* C39 as stated: SYNC messages are sent, and received messages applied,
\* only while the last notified status is CONNECTED, and while it is
\* CONNECTED the service holds an open connection.
C39_AsStated ==
  [][SentWhileConnected /\ AppliedWhileConnected /\ ConnectedHoldsOpen]_vars

----------------------------------------------------------------------------
(* The targets of the editor, checked under SpecEditor *)

\* C40 as stated: targetLabels has no duplicates, every card's label is one
\* of targetLabels, and activeTarget is null or one of targetLabels.
C40_AsStated ==
  editor # NoEditor =>
    /\ \A i, j \in 1..Len(editor.targetLabels) :
         i # j => editor.targetLabels[i] # editor.targetLabels[j]
    /\ \A i \in 1..Len(editor.cards) :
         includes(editor.targetLabels, editor.cards[i].label)
    /\ editor.activeTarget = "" \/ includes(editor.targetLabels, editor.activeTarget)

====
